---- MODULE Spec2Model ----
(***************************************************************************)
(* A model of the ptrs pluggable-transport framework.                      *)
(*                                                                         *)
(* Part 1 (specifications Spec and LiveSpec): the bidirectional copy       *)
(* engine, copy_bidirectional of src/pt/copy.rs and                        *)
(* src/transports/identity/duplex.rs, which polls transfer_one_direction   *)
(* of src/transports/identity/mod.rs once per direction in every           *)
(* scheduling turn.  One step of the model is one iteration of the loop of *)
(* transfer_one_direction (one I/O operation and the assignments that      *)
(* follow it), or one step of the poll_fn closure around it.               *)
(*                                                                         *)
(* Part 2 (specification WrapSpec): Transport::wrap of the transports and  *)
(* the Combined stream of src/stream.rs.                                   *)
(*                                                                         *)
(* Part 3 (specification NegSpec): the managed-proxy negotiation of        *)
(* src/pt.rs (client_setup and the functions it calls) as it is driven by  *)
(* main of examples/dummy-client.rs.                                       *)
(*                                                                         *)
(* Part 4 (specification DirSpec): make_state_dir of src/pt.rs called by   *)
(* several processes on one path.                                          *)
(*                                                                         *)
(* Part 5 (specification ArgsSpec): the argument map of src/args.rs, its   *)
(* encoder, the parser of client parameters and the parser of server       *)
(* transport options.                                                      *)
(*                                                                         *)
(* Part 6 (specification BindSpec): get_server_bindaddrs of                *)
(* src/bindaddr.rs in an environment of three variables.                   *)
(*                                                                         *)
(* Part 7 (specification TextSpec): arg_is_safe and encode_cstring of      *)
(* src/pt.rs, and decode_cstring of its tests.                             *)
(*                                                                         *)
(* Part 8 (specification ProxySpec): the accept loops of the proxy binary, *)
(* src/bin/proxy/config.rs and src/bin/proxy/handler.rs, the tasks they    *)
(* spawn and the cancellation token the tasks race against.                *)
(*                                                                         *)
(* Part 9 (specification InterSpec): copy_interactive of                   *)
(* src/other_copy.rs.                                                      *)
(***************************************************************************)
EXTENDS Integers, Sequences, FiniteSets, TLC

VARIABLES
    state,      \* a_to_b / b_to_a : TransferState, [tag, count]
    cbuf,       \* the CopyBuffer held by TransferState::Running, per direction
    inbound,    \* per connection: the bytes its peer has still to deliver to a read
    eof,        \* per connection: a read has returned zero bytes
    rlog,       \* per connection: the bytes read from it so far
    wlog,       \* per connection: the bytes written to it so far
    shut,       \* per connection: "open", "closing" (poll_shutdown pending), "closed"
    pc,         \* position in the poll_fn closure of copy_bidirectional
    ret,        \* this turn's Poll value of each transfer_one_direction call
    result,     \* what the future of copy_bidirectional has returned
    ioFailed,   \* history: an I/O operation on a or b has returned an error
    lateRead,   \* history: a read was issued on a connection after its end-of-stream
    wrapper,    \* the transport whose wrap is called
    wpc,        \* position in the wrap call
    raw,        \* the raw connections: bytes read/written, operations per half
    wres,       \* what wrap returned, and how many times it returned an error
    comb,       \* the Combined object wrap returned: its read half and write half
    npc,        \* position of the dummy client in main / client_setup
    envval,     \* the variable and the result of the latest env::var call
    reads,      \* the environment variables read so far, in order
    nret,       \* the function that returned last in client_setup, and its result
    info,       \* the ClientInfo: proxy_url and method_names
    idx,        \* number of method names the for loop of main has consumed
    out,        \* standard output: the text of every println!, in order
    listeners,  \* the number of TcpListeners main holds
    dvar,       \* the value of TOR_PT_STATE_LOCATION
    fs,         \* the file system: what each prefix of the path is
    dpc,        \* per process: position in make_state_dir
    dres,       \* per process: what make_state_dir returned
    amap,       \* the argument map built by add
    apc,        \* position of the argument-map run
    enc,        \* the output of encode_smethod_args
    given,      \* the input given to the latest parser or encoder call
    parsed,     \* the result of the latest parser call
    alog,       \* history: the (key, value) of every add, in call order
    aret,       \* the map and the key given to retrieve, and what it returned
    benv,       \* the three variables get_server_bindaddrs has read
    bres,       \* what get_server_bindaddrs returned
    sarg,       \* the string given to arg_is_safe or encode_cstring
    sres,       \* the latest of these calls and what it returned
    pmode,      \* which accept loop of the proxy runs
    ploop,      \* the accept loop: accepting, or ended and why
    ptasks,     \* per connection: its task, the writes of its copy, how it ended
    ptoken,     \* the CancellationToken has been cancelled
    ipc,        \* position in copy_interactive
    iloop,      \* loop_result of copy_interactive
    iops,       \* history: every operation on the reader and the writer, in order
    ires        \* what copy_interactive returned

copyVars == <<state, cbuf, inbound, eof, rlog, wlog, shut, pc, ret, result,
              ioFailed, lateRead>>
wrapVars == <<wrapper, wpc, raw, wres, comb>>
negVars == <<npc, envval, reads, nret, info, idx, out, listeners>>
dirVars == <<dvar, fs, dpc, dres>>
argsVars == <<amap, apc, enc, given, parsed, alog, aret>>
bindVars == <<benv, bres>>
textVars == <<sarg, sres>>
proxyVars == <<pmode, ploop, ptasks, ptoken>>
interVars == <<ipc, iloop, iops, ires>>
vars == <<copyVars, wrapVars, negVars, dirVars, argsVars, bindVars, textVars, proxyVars, interVars>>

\* What the actions of one part leave alone.
notCopy == <<wrapVars, negVars, dirVars, argsVars, bindVars, textVars, proxyVars, interVars>>
notWrap == <<copyVars, negVars, dirVars, argsVars, bindVars, textVars, proxyVars, interVars>>
notNeg == <<copyVars, wrapVars, dirVars, argsVars, bindVars, textVars, proxyVars, interVars>>
notDir == <<copyVars, wrapVars, negVars, argsVars, bindVars, textVars, proxyVars, interVars>>
notArgs == <<copyVars, wrapVars, negVars, dirVars, bindVars, textVars, proxyVars, interVars>>
notBind == <<copyVars, wrapVars, negVars, dirVars, argsVars, textVars, proxyVars, interVars>>
notText == <<copyVars, wrapVars, negVars, dirVars, argsVars, bindVars, proxyVars, interVars>>
notProxy == <<copyVars, wrapVars, negVars, dirVars, argsVars, bindVars, textVars, interVars>>
notInter == <<copyVars, wrapVars, negVars, dirVars, argsVars, bindVars, textVars, proxyVars>>

-----------------------------------------------------------------------------
(* Bounds *)

\* Longest byte stream a peer delivers before it closes.
MaxData == 2
\* Size of the CopyBuffer's byte buffer (scaled down).
BufSize == 2

Min(x, y) == IF x < y THEN x ELSE y

-----------------------------------------------------------------------------
(* The copy engine *)

Conns == {"a", "b"}
Dirs == {"a_to_b", "b_to_a"}

\* The bytes connection a's peer sends are 1, 2, ...; b's peer sends 11, 12, ...
Stream(c, n) == [i \in 1..n |-> IF c = "a" THEN i ELSE 10 + i]

\* copy_bidirectional: transfer_one_direction(cx, &mut a_to_b, a, b) and
\* transfer_one_direction(cx, &mut b_to_a, b, a): the reader and the writer
\* of each direction.
Reader(d) == IF d = "a_to_b" THEN "a" ELSE "b"

WriterSame(d) == "b"

Writer(d) == IF d = "a_to_b" THEN "b" ELSE "a"

Other(d) == IF d = "a_to_b" THEN "b_to_a" ELSE "a_to_b"

\* enum TransferState
Running == [tag |-> "Running", count |-> 0]
ShuttingDown(n) == [tag |-> "ShuttingDown", count |-> n]
Done(n) == [tag |-> "Done", count |-> n]

\* Poll<io::Result<u64>>
NotPolled == [kind |-> "none", n |-> 0]
Pending == [kind |-> "pending", n |-> 0]
Err == [kind |-> "err", n |-> 0]
Ready(n) == [kind |-> "ready", n |-> n]

\* The output of the future: none yet, Err(e), or Ok((a_to_b, b_to_a)).
NoResult == [kind |-> "none", a_to_b |-> 0, b_to_a |-> 0]
ResErr == [kind |-> "err", a_to_b |-> 0, b_to_a |-> 0]
ResOk(x, y) == [kind |-> "ok", a_to_b |-> x, b_to_a |-> y]

\* CopyBuffer::new()
CopyBufferNew ==
    [read_done |-> FALSE, need_flush |-> FALSE, pos |-> 0, cap |-> 0,
     amt |-> 0, buf |-> <<>>]

\* CopyBuffer::poll_copy, a read that returned the bytes bs (at least one).
BufFilled(b, bs) == [b EXCEPT !.pos = 0, !.cap = Len(bs), !.buf = bs]

\* CopyBuffer::poll_copy, a read that returned zero bytes.
BufEof(b) == [b EXCEPT !.read_done = TRUE]

\* CopyBuffer::poll_copy, a write that accepted i bytes of buf[pos..cap].
BufWritten(b, i) ==
    [b EXCEPT !.pos = b.pos + i, !.amt = b.amt + i, !.need_flush = TRUE]

\* The bytes a write of i bytes takes from the buffer.
BufSlice(b, i) == SubSeq(b.buf, b.pos + 1, b.pos + i)

CopyInit ==
    /\ state = [d \in Dirs |-> Running]
    /\ cbuf = [d \in Dirs |-> CopyBufferNew]
    /\ \E na \in 0..MaxData, nb \in 0..MaxData :
          inbound = [c \in Conns |-> IF c = "a" THEN Stream("a", na)
                                                ELSE Stream("b", nb)]
    /\ eof = [c \in Conns |-> FALSE]
    /\ rlog = [c \in Conns |-> <<>>]
    /\ wlog = [c \in Conns |-> <<>>]
    /\ shut = [c \in Conns |-> "open"]
    /\ pc = "idle"
    /\ ret = [d \in Dirs |-> NotPolled]
    /\ result = NoResult
    /\ ioFailed = FALSE
    /\ lateRead = FALSE

\* The executor polls the future: the closure starts with direction a_to_b.
Poll ==
    /\ pc = "idle"
    /\ pc' = "a_to_b"
    /\ ret' = [d \in Dirs |-> NotPolled]
    /\ UNCHANGED <<state, cbuf, inbound, eof, rlog, wlog, shut, result,
                   ioFailed, lateRead>>
    /\ UNCHANGED notCopy

\* transfer_one_direction for d returns r to the closure, which applies `?`:
\* an Err ends the future at once, anything else goes on to the next line.
ReturnKeepGoing(d, r) ==
    /\ ret' = [ret EXCEPT ![d] = r]
    /\ pc' = IF d = "a_to_b" THEN "b_to_a" ELSE "ready"
    /\ result' = result

ReturnReadyOnly(d, r) ==
    /\ ret' = [ret EXCEPT ![d] = r]
    /\ IF r.kind = "err"
          THEN pc' = "done" /\ result' = ResErr
          ELSE /\ pc' = IF r.kind = "pending" THEN "idle"
                        ELSE IF d = "a_to_b" THEN "b_to_a" ELSE "ready"
               /\ result' = result

Return(d, r) ==
    /\ ret' = [ret EXCEPT ![d] = r]
    /\ IF r.kind = "err"
          THEN pc' = "done" /\ result' = ResErr
          ELSE /\ pc' = IF d = "a_to_b" THEN "b_to_a" ELSE "ready"
               /\ result' = result

\* The loop of transfer_one_direction goes round again.
Continue == UNCHANGED <<pc, ret, result>>


\* transfer_one_direction, TransferState::Running: poll_copy with an empty
\* buffer and no end-of-stream yet issues a read on the reader.  Outcome o:
\*   "data"     the read returns some bytes: the loop of poll_copy goes on
\*   "eof"      the read returns zero bytes
\*   "pending"  the read is pending (and a flush, if one is due, is pending too)
\*   "flushed"  the read is pending and the flush that is due completes
\*   "flusherr" the read is pending and the flush that is due fails
\*   "err"      the read fails
Fill(d, o) ==
    /\ pc = d
    /\ state[d].tag = "Running"
    /\ cbuf[d].pos = cbuf[d].cap
    /\ ~cbuf[d].read_done
    /\ lateRead' = (lateRead \/ eof[Reader(d)])
    /\ UNCHANGED <<state, wlog, shut>>
    /\ UNCHANGED notCopy
    /\ \/ /\ o = "data"
          /\ \E n \in 1..Min(BufSize, Len(inbound[Reader(d)])) :
                /\ cbuf' = [cbuf EXCEPT
                              ![d] = BufFilled(@, SubSeq(inbound[Reader(d)], 1, n))]
                /\ rlog' = [rlog EXCEPT
                              ![Reader(d)] = @ \o SubSeq(inbound[Reader(d)], 1, n)]
                /\ inbound' = [inbound EXCEPT
                              ![Reader(d)] = SubSeq(@, n + 1, Len(@))]
          /\ UNCHANGED <<eof, ioFailed>>
          /\ Continue
       \/ /\ o = "eof"
          /\ inbound[Reader(d)] = <<>>
          /\ cbuf' = [cbuf EXCEPT ![d] = BufEof(@)]
          /\ eof' = [eof EXCEPT ![Reader(d)] = TRUE]
          /\ UNCHANGED <<inbound, rlog, ioFailed>>
          /\ Continue
       \/ /\ o = "pending"
          /\ UNCHANGED <<cbuf, inbound, eof, rlog, ioFailed>>
          /\ Return(d, Pending)
       \/ /\ o = "flushed"
          /\ cbuf[d].need_flush
          /\ cbuf' = [cbuf EXCEPT ![d].need_flush = FALSE]
          /\ UNCHANGED <<inbound, eof, rlog, ioFailed>>
          /\ Return(d, Pending)
       \/ /\ o = "flusherr"
          /\ cbuf[d].need_flush
          /\ ioFailed' = TRUE
          /\ UNCHANGED <<cbuf, inbound, eof, rlog>>
          /\ Return(d, Err)
       \/ /\ o = "err"
          /\ ioFailed' = TRUE
          /\ UNCHANGED <<cbuf, inbound, eof, rlog>>
          /\ Return(d, Err)

\* transfer_one_direction, TransferState::Running: poll_copy with bytes in
\* buf[pos..cap] writes them to the writer.  Outcome "ok" (some are accepted),
\* "pending" or "err".
Drain(d, o) ==
    /\ pc = d
    /\ state[d].tag = "Running"
    /\ cbuf[d].pos < cbuf[d].cap
    /\ UNCHANGED <<state, inbound, eof, rlog, shut, lateRead>>
    /\ UNCHANGED notCopy
    /\ \/ /\ o = "ok"
          /\ \E i \in 1..(cbuf[d].cap - cbuf[d].pos) :
                /\ wlog' = [wlog EXCEPT ![Writer(d)] = @ \o BufSlice(cbuf[d], i)]
                /\ cbuf' = [cbuf EXCEPT ![d] = BufWritten(@, i)]
          /\ UNCHANGED ioFailed
          /\ Continue
       \/ /\ o = "pending"
          /\ UNCHANGED <<cbuf, wlog, ioFailed>>
          /\ Return(d, Pending)
       \/ /\ o = "err"
          /\ ioFailed' = TRUE
          /\ UNCHANGED <<cbuf, wlog>>
          /\ Return(d, Err)

\* transfer_one_direction, TransferState::Running: everything read is written
\* and the reader is at end-of-stream: poll_copy flushes and returns
\* Ready(Ok(amt)), and the state becomes ShuttingDown(count).
FinishToDone(d, o) ==
    /\ pc = d
    /\ state[d].tag = "Running"
    /\ cbuf[d].pos = cbuf[d].cap
    /\ cbuf[d].read_done
    /\ UNCHANGED <<cbuf, inbound, eof, rlog, wlog, shut, lateRead>>
    /\ UNCHANGED notCopy
    /\ \/ /\ o = "ok"
          /\ state' = [state EXCEPT ![d] = Done(cbuf[d].amt)]
          /\ UNCHANGED ioFailed
          /\ Continue
       \/ /\ o = "pending"
          /\ UNCHANGED <<state, ioFailed>>
          /\ Return(d, Pending)
       \/ /\ o = "err"
          /\ ioFailed' = TRUE
          /\ UNCHANGED state
          /\ Return(d, Err)

FinishWithBytesHeld(d, o) ==
    /\ pc = d
    /\ state[d].tag = "Running"
    /\ UNCHANGED <<cbuf, inbound, eof, rlog, wlog, shut, lateRead>>
    /\ UNCHANGED notCopy
    /\ \/ /\ o = "ok"
          /\ state' = [state EXCEPT ![d] = ShuttingDown(cbuf[d].amt)]
          /\ UNCHANGED ioFailed
          /\ Continue
       \/ /\ o = "pending"
          /\ UNCHANGED <<state, ioFailed>>
          /\ Return(d, Pending)
       \/ /\ o = "err"
          /\ ioFailed' = TRUE
          /\ UNCHANGED state
          /\ Return(d, Err)

Finish(d, o) ==
    /\ pc = d
    /\ state[d].tag = "Running"
    /\ cbuf[d].pos = cbuf[d].cap
    /\ cbuf[d].read_done
    /\ UNCHANGED <<cbuf, inbound, eof, rlog, wlog, shut, lateRead>>
    /\ UNCHANGED notCopy
    /\ \/ /\ o = "ok"
          /\ state' = [state EXCEPT ![d] = ShuttingDown(cbuf[d].amt)]
          /\ UNCHANGED ioFailed
          /\ Continue
       \/ /\ o = "pending"
          /\ UNCHANGED <<state, ioFailed>>
          /\ Return(d, Pending)
       \/ /\ o = "err"
          /\ ioFailed' = TRUE
          /\ UNCHANGED state
          /\ Return(d, Err)

\* What a poll_shutdown call does to the connection: a second completed
\* shutdown would show as "reclosed".
Closed(s) == IF s = "closed" \/ s = "reclosed" THEN "reclosed" ELSE "closed"

\* transfer_one_direction, TransferState::ShuttingDown(count): poll_shutdown
\* on the writer; once it completes the state becomes Done(count).
ShutdownErrDone(d, o) ==
    /\ pc = d
    /\ state[d].tag = "ShuttingDown"
    /\ UNCHANGED <<cbuf, inbound, eof, rlog, wlog, lateRead>>
    /\ UNCHANGED notCopy
    /\ \/ /\ o = "ok"
          /\ shut' = [shut EXCEPT ![Writer(d)] = Closed(@)]
          /\ state' = [state EXCEPT ![d] = Done(state[d].count)]
          /\ UNCHANGED ioFailed
          /\ Continue
       \/ /\ o = "pending"
          /\ shut' = [shut EXCEPT ![Writer(d)] = "closing"]
          /\ UNCHANGED <<state, ioFailed>>
          /\ Return(d, Pending)
       \/ /\ o = "err"
          /\ ioFailed' = TRUE
          /\ state' = [state EXCEPT ![d] = Done(state[d].count)]
          /\ UNCHANGED shut
          /\ Return(d, Err)

ShutdownSkipped(d, o) ==
    /\ pc = d
    /\ state[d].tag = "ShuttingDown"
    /\ o = "ok"
    /\ state' = [state EXCEPT ![d] = Done(state[d].count)]
    /\ UNCHANGED <<cbuf, inbound, eof, rlog, wlog, shut, lateRead, ioFailed>>
    /\ UNCHANGED notCopy
    /\ Continue

Shutdown(d, o) ==
    /\ pc = d
    /\ state[d].tag = "ShuttingDown"
    /\ UNCHANGED <<cbuf, inbound, eof, rlog, wlog, lateRead>>
    /\ UNCHANGED notCopy
    /\ \/ /\ o = "ok"
          /\ shut' = [shut EXCEPT ![Writer(d)] = Closed(@)]
          /\ state' = [state EXCEPT ![d] = Done(state[d].count)]
          /\ UNCHANGED ioFailed
          /\ Continue
       \/ /\ o = "pending"
          /\ shut' = [shut EXCEPT ![Writer(d)] = "closing"]
          /\ UNCHANGED <<state, ioFailed>>
          /\ Return(d, Pending)
       \/ /\ o = "err"
          /\ ioFailed' = TRUE
          /\ UNCHANGED <<state, shut>>
          /\ Return(d, Err)

\* transfer_one_direction, TransferState::Done(count): return Ready(Ok(count)).
ReturnDonePending(d) ==
    /\ pc = d
    /\ state[d].tag = "Done"
    /\ UNCHANGED <<state, cbuf, inbound, eof, rlog, wlog, shut, ioFailed,
                   lateRead>>
    /\ UNCHANGED notCopy
    /\ Return(d, Pending)

ReturnDone(d) ==
    /\ pc = d
    /\ state[d].tag = "Done"
    /\ UNCHANGED <<state, cbuf, inbound, eof, rlog, wlog, shut, ioFailed,
                   lateRead>>
    /\ UNCHANGED notCopy
    /\ Return(d, Ready(state[d].count))

\* The end of the closure: ready!(a_to_b), ready!(b_to_a), then
\* Poll::Ready(Ok((a_to_b, b_to_a))).  A pending direction makes this poll of
\* the future return Poll::Pending.
CompleteFirstOnly ==
    /\ pc = "ready"
    /\ IF ret["a_to_b"].kind = "ready"
          THEN /\ pc' = "done"
               /\ result' = ResOk(ret["a_to_b"].n, ret["b_to_a"].n)
          ELSE /\ pc' = "idle"
               /\ result' = result
    /\ UNCHANGED <<state, cbuf, inbound, eof, rlog, wlog, shut, ret, ioFailed,
                   lateRead>>
    /\ UNCHANGED notCopy

CompleteSwapped ==
    /\ pc = "ready"
    /\ IF ret["a_to_b"].kind = "ready" /\ ret["b_to_a"].kind = "ready"
          THEN /\ pc' = "done"
               /\ result' = ResOk(ret["b_to_a"].n, ret["a_to_b"].n)
          ELSE /\ pc' = "idle"
               /\ result' = result
    /\ UNCHANGED <<state, cbuf, inbound, eof, rlog, wlog, shut, ret, ioFailed,
                   lateRead>>
    /\ UNCHANGED notCopy

Complete ==
    /\ pc = "ready"
    /\ IF ret["a_to_b"].kind = "ready" /\ ret["b_to_a"].kind = "ready"
          THEN /\ pc' = "done"
               /\ result' = ResOk(ret["a_to_b"].n, ret["b_to_a"].n)
          ELSE /\ pc' = "idle"
               /\ result' = result
    /\ UNCHANGED <<state, cbuf, inbound, eof, rlog, wlog, shut, ret, ioFailed,
                   lateRead>>
    /\ UNCHANGED notCopy

ReadOutcomes == {"data", "eof", "pending", "flushed", "flusherr", "err"}
IoOutcomes == {"ok", "pending", "err"}

CopyNext ==
    \/ Poll
    \/ \E d \in Dirs, o \in ReadOutcomes : Fill(d, o)
    \/ \E d \in Dirs, o \in IoOutcomes : Drain(d, o)
    \/ \E d \in Dirs, o \in IoOutcomes : Finish(d, o)
    \/ \E d \in Dirs, o \in IoOutcomes : Shutdown(d, o)
    \/ \E d \in Dirs : ReturnDone(d)
    \/ Complete

\* The wrap part stands still while the copy engine runs.
WrapParked ==
    /\ wrapper = "none"
    /\ wpc = "parked"
    /\ raw = <<>>
    /\ wres = <<>>
    /\ comb = <<>>

\* The negotiation stands still while another part runs.
NegParked ==
    /\ npc = "parked"
    /\ envval = <<>>
    /\ reads = <<>>
    /\ nret = <<>>
    /\ info = <<>>
    /\ idx = 0
    /\ out = <<>>
    /\ listeners = 0

\* make_state_dir stands still while another part runs.
DirParked ==
    /\ dvar = <<>>
    /\ fs = <<>>
    /\ dpc = <<>>
    /\ dres = <<>>

\* The argument map stands still while another part runs.
ArgsParked ==
    /\ amap = <<>>
    /\ apc = "parked"
    /\ enc = <<>>
    /\ given = <<>>
    /\ parsed = <<>>
    /\ alog = <<>>
    /\ aret = <<>>

\* The bind addresses and the text functions stand still while another
\* part runs.
BindParked == benv = <<>> /\ bres = <<>>
TextParked == sarg = <<>> /\ sres = <<>>
ProxyParked == pmode = "none" /\ ploop = <<>> /\ ptasks = <<>> /\ ptoken = FALSE
InterParked == ipc = "parked" /\ iloop = <<>> /\ iops = <<>> /\ ires = <<>>
OthersParked == BindParked /\ TextParked /\ ProxyParked /\ InterParked

Init == CopyInit /\ WrapParked /\ NegParked /\ DirParked /\ ArgsParked /\ OthersParked

Next == CopyNext

Spec == Init /\ [][Next]_vars

\* Fair polling: the executor polls the future again, every step of the
\* closure that needs no I/O is taken, and an I/O operation that is tried
\* again and again does not stay pending for ever.
Fairness ==
    /\ WF_vars(Poll)
    /\ WF_vars(Complete)
    /\ \A d \in Dirs :
          /\ WF_vars(ReturnDone(d))
          /\ SF_vars(Fill(d, "data") \/ Fill(d, "eof"))
          /\ SF_vars(Drain(d, "ok"))
          /\ SF_vars(Finish(d, "ok"))
          /\ SF_vars(Shutdown(d, "ok"))

LiveSpec == Init /\ [][Next]_vars /\ Fairness


-----------------------------------------------------------------------------
(* Transport::wrap and the Combined stream *)

\* Most operations one run performs on the connections.
MaxOps == 3

RawConns == {"c1", "c2"}

\* The transports whose wrap is modelled; "combine" is a caller that joins a
\* read half and a write half with stream::combine itself.
WrapKinds == {"null", "wrapper", "client", "server", "combine"}

\* tokio::io::split(a): the read half and the write half of connection c.
ReadHalfOf(c) == [conn |-> c, side |-> "r"]
WriteHalfOf(c) == [conn |-> c, side |-> "w"]

\* Reveal::reveal and Seal::seal of Identity and Http return the half they
\* are given.
reveal(r) == r
seal(w) == w

\* stream::combine
combine(r, w) == [r |-> r, w |-> w]

NoStream == [r |-> [conn |-> "none", side |-> "r"],
             w |-> [conn |-> "none", side |-> "w"]]

\* Which field of Combined serves an operation: poll_read goes to r,
\* poll_write, poll_flush and poll_shutdown go to w.
HalfAlwaysR(op) == "r"

HalfFor(op) == IF op = "read" THEN "r" ELSE "w"

CombinedOps == {"read", "write", "flush", "shutdown"}

\* The I/O of a TLS handshake on the raw connection, in order: the client
\* writes its hello first, the server reads it first.
Handshake(kind) ==
    IF kind = "client" THEN <<"write", "read", "write">>
                       ELSE <<"read", "write", "read">>

\* The operations performed so far on all halves.
OpsDone == LET n(c) == Len(raw[c].r) + Len(raw[c].w)
           IN n("c1") + n("c2")

\* One more operation op on the half h.
Touch(h, op) == [raw EXCEPT ![h.conn][h.side] = Append(@, op)]

Untouched(c) == raw[c].r = <<>> /\ raw[c].w = <<>>

At(where) == [at |-> where, step |-> 0]

WrapOk(s) ==
    /\ wres' = [wres EXCEPT !.kind = "ok"]
    /\ comb' = s
    /\ wpc' = At("returned")

WrapErr ==
    /\ wres' = [wres EXCEPT !.kind = "err", !.errs = @ + 1]
    /\ comb' = comb
    /\ wpc' = At("returned")

WrapInit ==
    /\ \E k \in WrapKinds, c \in BOOLEAN : wrapper = [kind |-> k, cfg |-> c]
    /\ wpc = At("start")
    /\ raw = [c \in RawConns |-> [r |-> <<>>, w |-> <<>>]]
    /\ wres = [kind |-> "none", errs |-> 0]
    /\ comb = NoStream

\* NullTransport::wrap: Err(Error::NullTransport).
NullWrap ==
    /\ wrapper.kind = "null"
    /\ wpc.at = "start"
    /\ WrapErr
    /\ UNCHANGED <<wrapper, raw>>
    /\ UNCHANGED notWrap

\* Wrapper::wrap: split a, reveal the read half, seal the write half, combine.
WrapperWrap ==
    /\ wrapper.kind = "wrapper"
    /\ wpc.at = "start"
    /\ WrapOk(combine(reveal(ReadHalfOf("c1")), seal(WriteHalfOf("c1"))))
    /\ UNCHANGED <<wrapper, raw>>
    /\ UNCHANGED notWrap

\* stream::combine on the read half of one connection and the write half of
\* another (or the same) one.
CombineHalves ==
    /\ wrapper.kind = "combine"
    /\ wpc.at = "start"
    /\ \E cr \in RawConns, cw \in RawConns :
          WrapOk(combine(reveal(ReadHalfOf(cr)), seal(WriteHalfOf(cw))))
    /\ UNCHANGED <<wrapper, raw>>
    /\ UNCHANGED notWrap

\* rustls Client::wrap / Server::wrap: the configuration is taken first
\* (ok_or(..)?), then the handshake starts on the raw connection.
TlsConfigLate ==
    /\ wrapper.kind \in {"client", "server"}
    /\ wpc.at = "start"
    /\ raw' = Touch(WriteHalfOf("c1"), "write")
    /\ IF wrapper.cfg
          THEN /\ wpc' = [at |-> "handshake", step |-> 2]
               /\ UNCHANGED <<wres, comb>>
          ELSE WrapErr
    /\ UNCHANGED wrapper
    /\ UNCHANGED notWrap

TlsConfig ==
    /\ wrapper.kind \in {"client", "server"}
    /\ wpc.at = "start"
    /\ IF wrapper.cfg
          THEN /\ wpc' = [at |-> "handshake", step |-> 1]
               /\ UNCHANGED <<wres, comb>>
          ELSE WrapErr
    /\ UNCHANGED <<wrapper, raw>>
    /\ UNCHANGED notWrap

\* connector.connect(server_name, a).await? / acceptor.accept(a).await?: one
\* I/O operation of the handshake on the raw connection.  Outcome "ok": the
\* bytes are moved and the handshake goes on; "bad": the bytes are moved and
\* the handshake fails on them; "err": the operation itself fails.
TlsHandshake(o) ==
    /\ wrapper.kind \in {"client", "server"}
    /\ wpc.at = "handshake"
    /\ LET ops == Handshake(wrapper.kind)
           op == ops[wpc.step]
           h == IF op = "read" THEN ReadHalfOf("c1") ELSE WriteHalfOf("c1")
       IN \/ /\ o = "ok"
             /\ raw' = Touch(h, op)
             /\ IF wpc.step < Len(ops)
                   THEN /\ wpc' = [wpc EXCEPT !.step = @ + 1]
                        /\ UNCHANGED <<wres, comb>>
                   ELSE WrapOk(combine(ReadHalfOf("c1"), WriteHalfOf("c1")))
          \/ /\ o = "bad"
             /\ op = "read"
             /\ raw' = Touch(h, op)
             /\ WrapErr
          \/ /\ o = "err"
             /\ raw' = raw
             /\ WrapErr
    /\ UNCHANGED wrapper
    /\ UNCHANGED notWrap

\* Combined::poll_read / poll_write / poll_flush / poll_shutdown on the
\* stream wrap returned: the operation is passed to one field of Combined.
CombinedPoll(op) ==
    /\ wrapper.kind \in {"wrapper", "combine"}
    /\ wres.kind = "ok"
    /\ OpsDone < MaxOps
    /\ raw' = Touch(comb[HalfFor(op)], op)
    /\ UNCHANGED <<wrapper, wpc, wres, comb>>
    /\ UNCHANGED notWrap

WrapNext ==
    \/ NullWrap
    \/ WrapperWrap
    \/ CombineHalves
    \/ TlsConfig
    \/ \E o \in {"ok", "bad", "err"} : TlsHandshake(o)
    \/ \E op \in CombinedOps : CombinedPoll(op)

\* The copy engine stands still while wrap runs.
CopyParked ==
    /\ state = [d \in Dirs |-> Running]
    /\ cbuf = [d \in Dirs |-> CopyBufferNew]
    /\ inbound = [c \in Conns |-> <<>>]
    /\ eof = [c \in Conns |-> FALSE]
    /\ rlog = [c \in Conns |-> <<>>]
    /\ wlog = [c \in Conns |-> <<>>]
    /\ shut = [c \in Conns |-> "open"]
    /\ pc = "parked"
    /\ ret = [d \in Dirs |-> NotPolled]
    /\ result = NoResult
    /\ ioFailed = FALSE
    /\ lateRead = FALSE

WrapSpecInit == WrapInit /\ CopyParked /\ NegParked /\ DirParked /\ ArgsParked
    /\ OthersParked

WrapSpec == WrapSpecInit /\ [][WrapNext]_vars


-----------------------------------------------------------------------------
(* Strings *)

\* A string is a sequence of characters, a character a TLA+ string: the
\* character itself, or U+ and its code point.
\* The printable US-ASCII characters in the order of their codes 32..126.
AsciiPrintable ==
    <<" ", "!", "U+0022", "#", "$", "%", "&", "'", "(", ")", "*", "+", ",", "-",
      ".", "/", "0", "1", "2", "3", "4", "5", "6", "7", "8", "9", ":", ";",
      "<", "=", ">", "?", "@", "A", "B", "C", "D", "E", "F", "G", "H", "I",
      "J", "K", "L", "M", "N", "O", "P", "Q", "R", "S", "T", "U", "V", "W",
      "X", "Y", "Z", "[", "\\", "]", "^", "_", "U+0060", "a", "b", "c", "d", "e",
      "f", "g", "h", "i", "j", "k", "l", "m", "n", "o", "p", "q", "r", "s",
      "t", "u", "v", "w", "x", "y", "z", "{", "|", "}", "~">>

\* Characters outside the printable range, with their code points.
OtherChars ==
    [c \in {"\n", "\t", "\r", "U+0000", "U+0001", "U+007F", "U+0080", "U+00E9",
            "U+00FF", "U+0100", "U+010A", "U+0141"} |->
        CASE c = "\n" -> 10
          [] c = "\t" -> 9
          [] c = "\r" -> 13
          [] c = "U+0000" -> 0
          [] c = "U+0001" -> 1
          [] c = "U+007F" -> 127
          [] c = "U+0080" -> 128
          [] c = "U+00E9" -> 233
          [] c = "U+00FF" -> 255
          [] c = "U+0100" -> 256
          [] c = "U+010A" -> 266
          [] c = "U+0141" -> 321]

Chars == {AsciiPrintable[i] : i \in DOMAIN AsciiPrintable} \cup DOMAIN OtherChars

\* The code point of each character (char as u32).
Code == [c \in Chars |->
    IF c \in DOMAIN OtherChars THEN OtherChars[c]
    ELSE 31 + (CHOOSE i \in DOMAIN AsciiPrintable : AsciiPrintable[i] = c)]

\* All strings over a set of characters, up to a length.
Strings(chars, n) == UNION {[1..k -> chars] : k \in 0..n}

\* [String]::join(sep)
RECURSIVE Join(_, _)
Join(ss, sep) ==
    IF ss = <<>> THEN <<>>
    ELSE IF Len(ss) = 1 THEN ss[1]
    ELSE ss[1] \o sep \o Join(Tail(ss), sep)

RECURSIVE Flatten(_)
Flatten(ss) == IF ss = <<>> THEN <<>> ELSE Head(ss) \o Flatten(Tail(ss))

\* str::split(c) for a character c: the pieces between the occurrences of c.
RECURSIVE SplitChar(_, _)
SplitChar(s, c) ==
    IF \E i \in 1..Len(s) : s[i] = c
    THEN LET i == CHOOSE i \in 1..Len(s) :
                      s[i] = c /\ \A j \in 1..(i - 1) : s[j] # c
         IN  <<SubSeq(s, 1, i - 1)>> \o SplitChar(SubSeq(s, i + 1, Len(s)), c)
    ELSE <<s>>

\* str::split("") : the empty pattern matches at every character boundary,
\* which gives an empty piece, every character by itself, an empty piece.
SplitEmpty(s) == <<<<>>>> \o [i \in 1..Len(s) |-> <<s[i]>>] \o <<<<>>>>

-----------------------------------------------------------------------------
(* The negotiation: client_setup and the dummy client *)

\* Longest value of TOR_PT_MANAGED_TRANSPORT_VER, in characters.
MaxVerLen == 2
\* Longest value of TOR_PT_CLIENT_TRANSPORTS, in pieces of NamePieces.
MaxNamePieces == 3

TOR_PT_PROXY == "TOR_PT_PROXY"
TOR_PT_MANAGED_TRANSPORT_VER == "TOR_PT_MANAGED_TRANSPORT_VER"
TOR_PT_CLIENT_TRANSPORTS == "TOR_PT_CLIENT_TRANSPORTS"
TOR_PT_EXIT_ON_STDIN_CLOSE == "TOR_PT_EXIT_ON_STDIN_CLOSE"

\* What env::var returns.
EnvNotPresent == [kind |-> "NotPresent"]
EnvNotUnicode == [kind |-> "NotUnicode"]
EnvOk(s) == [kind |-> "ok", val |-> s]
EnvResults(values) == {EnvNotPresent, EnvNotUnicode} \cup {EnvOk(v) : v \in values}

\* Result values.
Ok(v) == [kind |-> "ok", val |-> v]
Error(k, v) == [kind |-> k, val |-> v]
\* PTError::from(VarError)
EnvError(e) == Error("EnvError", e.kind)
VersionError(m) == Error("VersionError", m)
ProxyError(m) == Error("ProxyError", m)
None == [kind |-> "None"]
Some(v) == [kind |-> "Some", val |-> v]

\* The values the parent may give the version variable.
VerValues == Strings({"1", "2", ","}, MaxVerLen)

Dummy == <<"d", "u", "m", "m", "y">>
\* The values the parent may give the transport-names variable are made of
\* these pieces.
NamePieces == {Dummy, <<"x">>, <<",">>, <<"\\">>, <<"*">>, <<" ">>, <<"\n">>}
TransportValues == {Flatten(ps) : ps \in Strings(NamePieces, MaxNamePieces)}

\* The values the parent may give the proxy variable: the text of a URL by
\* its parts, <scheme> ":" ["//"] <host> [":" <port>].  A scheme of "" is a
\* text with no scheme in front ("bogus", "//host", "://host"); a port of
\* "none" is a text without the colon of the port.
ProxyValues ==
    [scheme : {"", "http", "socks5"}, slashes : BOOLEAN,
     host : {"", "localhost"}, port : {"none", "", "80", "1080"}]

TRANSPORT_VERSION == <<"1">>

get_managed_transport_version(e) ==
    IF e.kind # "ok" THEN EnvError(e)
    ELSE LET parts == SplitEmpty(e.val)
         IN  IF \E i \in DOMAIN parts : parts[i] = TRANSPORT_VERSION
             THEN Ok(TRANSPORT_VERSION)
             ELSE VersionError("no-version")

\* A get_client_transports that does not split the value.
get_client_transportsWhole(e) ==
    IF e.kind # "ok" THEN EnvError(e)
    ELSE Ok(<<e.val>>)

get_client_transports(e) ==
    IF e.kind # "ok" THEN EnvError(e)
    ELSE Ok(SplitChar(e.val, ","))

\* The schemes the url crate calls special have a default port and a host
\* that may not be empty; the two slashes are optional after them.
DefaultPort == [s \in {"http"} |-> "80"]

\* Url::parse on the text t.  A text without a scheme is a relative URL;
\* a text with a scheme that is not special and no slashes has an opaque
\* path and no authority.  Url::port() is None for no port, for an empty
\* port and for the default port of the scheme.
UrlParse(t) ==
    IF t.scheme = "" THEN Error("url::ParseError", "RelativeUrlWithoutBase")
    ELSE IF t.scheme \in DOMAIN DefaultPort
    THEN IF t.host = "" THEN Error("url::ParseError", "EmptyHost")
         ELSE Ok([scheme |-> t.scheme, has_authority |-> TRUE, has_host |-> TRUE,
                  port |-> IF t.port \in {"none", "", DefaultPort[t.scheme]}
                           THEN None ELSE Some(t.port)])
    ELSE IF ~t.slashes
    THEN Ok([scheme |-> t.scheme, has_authority |-> FALSE, has_host |-> FALSE,
             port |-> None])
    ELSE IF t.host = "" /\ t.port # "none"
    THEN Error("url::ParseError", "EmptyHost")
    ELSE Ok([scheme |-> t.scheme, has_authority |-> TRUE,
             has_host |-> t.host # "",
             port |-> IF t.port \in {"none", ""} THEN None ELSE Some(t.port)])

get_proxy_url(e) ==
    IF e.kind = "NotPresent" THEN Ok(None)
    ELSE IF e.kind # "ok" THEN Error("env::VarError", e.kind)
    ELSE LET url == UrlParse(e.val)
         IN  IF url.kind # "ok" THEN url
             ELSE IF url.val.scheme = "" THEN ProxyError("missing scheme")
             ELSE IF ~url.val.has_authority THEN ProxyError("missing authority")
             ELSE IF ~url.val.has_host THEN ProxyError("missing host")
             ELSE IF url.val.port = None THEN ProxyError("missing port")
             ELSE Ok(Some(url.val))

\* keyword.chars() are all ASCII alphanumerics, dash or underscore.
keyword_is_safe(keyword) ==
    \A i \in DOMAIN keyword :
        LET b == Code[keyword[i]]
        IN  \/ Code["0"] <= b /\ b <= Code["9"]
            \/ Code["A"] <= b /\ b <= Code["Z"]
            \/ Code["a"] <= b /\ b <= Code["z"]
            \/ keyword[i] = "-"
            \/ keyword[i] = "_"

\* Every character of arg, cast to u8, is below 0x80 and neither NUL nor NL.
arg_is_safe(arg) ==
    \A i \in DOMAIN arg :
        LET b == Code[arg[i]] % 256
        IN  ~(b >= 128) /\ b \notin {0, 10}

\* The text emit prints: the keyword, then a space and the argument for
\* every argument.
RECURSIVE EmitArgs(_)
EmitArgs(v) == IF v = <<>> THEN <<>> ELSE <<" ">> \o Head(v) \o EmitArgs(Tail(v))

emit(keyword, v) == keyword \o EmitArgs(v)

VERSION == <<"V", "E", "R", "S", "I", "O", "N">>
CMETHOD_ERROR == <<"C", "M", "E", "T", "H", "O", "D", "-", "E", "R", "R", "O", "R">>
CMETHODS == <<"C", "M", "E", "T", "H", "O", "D", "S">>
DONE == <<"D", "O", "N", "E">>
NoSuchMethod == <<"n", "o", " ", "s", "u", "c", "h", " ", "m", "e", "t", "h", "o", "d">>
ProxyNotSupported ==
    <<"p", "r", "o", "x", "y", " ", "n", "o", "t", " ",
      "s", "u", "p", "p", "o", "r", "t", "e", "d">>

NoEnv == [name |-> "none"]
NoReturn == [fn |-> "none"]
NoInfo == [kind |-> "none"]

NegInit ==
    /\ npc = "start"
    /\ envval = NoEnv
    /\ reads = <<>>
    /\ nret = NoReturn
    /\ info = NoInfo
    /\ idx = 0
    /\ out = <<>>
    /\ listeners = 0

\* env::var(name) returns e.
EnvVar(name, e) ==
    /\ envval' = [name |-> name, res |-> e]
    /\ reads' = Append(reads, name)

\* println!: one more text on standard output.
Println(text) == out' = Append(out, text)

\* A client_setup that prints the VERSION line before it looks at the result.
ClientSetupVersionEmitFirst(e) ==
    /\ npc = "start"
    /\ EnvVar(TOR_PT_MANAGED_TRANSPORT_VER, e)
    /\ LET ver == get_managed_transport_version(e)
       IN  /\ nret' = [fn |-> "get_managed_transport_version", res |-> ver]
           /\ Println(emit(VERSION, <<TRANSPORT_VERSION>>))
           /\ IF ver.kind = "ok"
              THEN /\ npc' = "versioned"
                   /\ UNCHANGED info
              ELSE /\ info' = ver
                   /\ npc' = "panicked"
    /\ UNCHANGED <<idx, listeners>>
    /\ UNCHANGED notNeg

\* client_setup up to the VERSION line.  An error leaves client_setup
\* through `?`, and the unwrap in main panics on it.
ClientSetupVersion(e) ==
    /\ npc = "start"
    /\ EnvVar(TOR_PT_MANAGED_TRANSPORT_VER, e)
    /\ LET ver == get_managed_transport_version(e)
       IN  /\ nret' = [fn |-> "get_managed_transport_version", res |-> ver]
           /\ IF ver.kind = "ok"
              THEN /\ Println(emit(VERSION, <<ver.val>>))
                   /\ npc' = "versioned"
                   /\ UNCHANGED info
              ELSE /\ info' = ver
                   /\ npc' = "panicked"
                   /\ UNCHANGED out
    /\ UNCHANGED <<idx, listeners>>
    /\ UNCHANGED notNeg

\* A client_setup that goes on to the method names after a proxy error.
ClientSetupProxyGoesOn(e) ==
    /\ npc = "versioned"
    /\ EnvVar(TOR_PT_PROXY, e)
    /\ LET url == get_proxy_url(e)
       IN  /\ nret' = [fn |-> "get_proxy_url", res |-> url]
           /\ npc' = "proxied"
           /\ IF url.kind = "ok"
              THEN UNCHANGED info
              ELSE info' = url
    /\ UNCHANGED <<idx, out, listeners>>
    /\ UNCHANGED notNeg

\* client_setup: the proxy_url field of the ClientInfo.
ClientSetupProxy(e) ==
    /\ npc = "versioned"
    /\ EnvVar(TOR_PT_PROXY, e)
    /\ LET url == get_proxy_url(e)
       IN  /\ nret' = [fn |-> "get_proxy_url", res |-> url]
           /\ IF url.kind = "ok"
              THEN /\ npc' = "proxied"
                   /\ UNCHANGED info
              ELSE /\ info' = url
                   /\ npc' = "panicked"
    /\ UNCHANGED <<idx, out, listeners>>
    /\ UNCHANGED notNeg

\* client_setup: the method_names field of the ClientInfo, and the return.
ClientSetupTransports(e) ==
    /\ npc = "proxied"
    /\ EnvVar(TOR_PT_CLIENT_TRANSPORTS, e)
    /\ LET names == get_client_transports(e)
       IN  /\ nret' = [fn |-> "get_client_transports", res |-> names]
           /\ IF names.kind = "ok"
              THEN /\ info' = Ok([proxy_url |-> nret.res.val,
                                  method_names |-> names.val])
                   /\ npc' = "setup_ok"
              ELSE /\ info' = names
                   /\ npc' = "panicked"
    /\ UNCHANGED <<idx, out, listeners>>
    /\ UNCHANGED notNeg

\* main: a requested proxy is refused and the process exits.
MainProxyCheck ==
    /\ npc = "setup_ok"
    /\ IF info.val.proxy_url # None
       THEN /\ Println(ProxyNotSupported)
            /\ npc' = "exited"
       ELSE /\ npc' = "loop"
            /\ UNCHANGED out
    /\ UNCHANGED <<envval, reads, nret, info, idx, listeners>>
    /\ UNCHANGED notNeg

\* main, the "dummy" arm of the loop: TcpListener::bind returns o, and unwrap
\* panics on an error.  The address is taken while a listener holds it.
MainBind(o) ==
    /\ npc = "loop"
    /\ idx < Len(info.val.method_names)
    /\ info.val.method_names[idx + 1] = Dummy
    /\ o = "ok" => listeners = 0
    /\ IF o = "ok"
       THEN /\ listeners' = listeners + 1
            /\ idx' = idx + 1
            /\ UNCHANGED npc
       ELSE /\ npc' = "panicked"
            /\ UNCHANGED <<idx, listeners>>
    /\ UNCHANGED <<envval, reads, nret, info, out>>
    /\ UNCHANGED notNeg

\* main, the other arm of the loop.
MainMethodError ==
    /\ npc = "loop"
    /\ idx < Len(info.val.method_names)
    /\ info.val.method_names[idx + 1] # Dummy
    /\ Println(CMETHOD_ERROR \o <<" ">> \o info.val.method_names[idx + 1]
               \o <<" ">> \o NoSuchMethod)
    /\ idx' = idx + 1
    /\ UNCHANGED <<npc, envval, reads, nret, info, listeners>>
    /\ UNCHANGED notNeg

\* main, after the loop.
MainDone ==
    /\ npc = "loop"
    /\ idx = Len(info.val.method_names)
    /\ Println(CMETHODS \o <<" ">> \o DONE)
    /\ npc' = "done"
    /\ UNCHANGED <<envval, reads, nret, info, idx, listeners>>
    /\ UNCHANGED notNeg

\* main: the thread that watches standard input is spawned and joined.  It
\* returns at once unless TOR_PT_EXIT_ON_STDIN_CLOSE is "1".
MainStdinThread(e) ==
    /\ npc = "done"
    /\ EnvVar(TOR_PT_EXIT_ON_STDIN_CLOSE, e)
    /\ npc' = IF e = EnvOk(<<"1">>) THEN "stdin" ELSE "returned"
    /\ UNCHANGED <<nret, info, idx, out, listeners>>
    /\ UNCHANGED notNeg

\* The thread reads the end of standard input and exits the process.
StdinEof ==
    /\ npc = "stdin"
    /\ npc' = "exited"
    /\ UNCHANGED <<envval, reads, nret, info, idx, out, listeners>>
    /\ UNCHANGED notNeg

NegNext ==
    \/ \E e \in EnvResults(VerValues) : ClientSetupVersion(e)
    \/ \E e \in EnvResults(ProxyValues) : ClientSetupProxy(e)
    \/ \E e \in EnvResults(TransportValues) : ClientSetupTransports(e)
    \/ MainProxyCheck
    \/ \E o \in {"ok", "err"} : MainBind(o)
    \/ MainMethodError
    \/ MainDone
    \/ \E e \in EnvResults({<<"1">>, <<"0">>}) : MainStdinThread(e)
    \/ StdinEof

NegSpecInit == NegInit /\ CopyParked /\ WrapParked /\ DirParked /\ ArgsParked
    /\ OthersParked

NegSpec == NegSpecInit /\ [][NegNext]_vars

-----------------------------------------------------------------------------
(* make_state_dir *)

\* Number of processes that call make_state_dir on the same path.
NumProcs == 3

TOR_PT_STATE_LOCATION == "TOR_PT_STATE_LOCATION"

Procs == 1..NumProcs
\* The path in TOR_PT_STATE_LOCATION: a missing parent and the directory,
\* below a directory that exists.
StateLocation == <<"missingParent", "parentMissing">>
Depth == Len(StateLocation)

\* What one prefix of the path may be in the file system.
FileKinds == {"missing", "dir", "file"}
\* Nothing exists below something that is not a directory.
FsShapes ==
    {f \in [1..Depth -> FileKinds] :
        \A l \in 2..Depth : f[l - 1] # "dir" => f[l] = "missing"}

\* The mkdir system call on the prefix of length l.
MkdirResult(f, l) ==
    IF l > 1 /\ f[l - 1] = "missing" THEN Error("io", "NotFound")
    ELSE IF l > 1 /\ f[l - 1] = "file" THEN Error("io", "NotADirectory")
    ELSE IF f[l] # "missing" THEN Error("io", "AlreadyExists")
    ELSE Ok(l)

\* The match of make_state_dir on the result of DirBuilder::create.
MakeStateDirResult(loc, created) ==
    IF created.kind = "ok" THEN Ok(loc)
    ELSE Error("IOError", created.val)

\* Position of a call: the prefix it works on, the errors its mkdir calls
\* have returned so far, and the error is_dir is called for.
NoError == [kind |-> "none"]
DirAt(at, l, seen, err) == [at |-> at, level |-> l, seen |-> seen, err |-> err]

DirInit ==
    /\ dvar \in {EnvNotPresent, EnvOk(StateLocation)}
    /\ fs \in FsShapes
    /\ dpc = [p \in Procs |-> DirAt("start", Depth, {}, NoError)]
    /\ dres = [p \in Procs |-> NoReturn]

\* DirBuilder::create has come to its result for process p.
DirReturn(p, created, seen) ==
    /\ dres' = [dres EXCEPT ![p] = MakeStateDirResult(dvar.val, created)]
    /\ dpc' = [dpc EXCEPT ![p] = DirAt("returned", Depth, seen, NoError)]

\* create_dir_all has succeeded on the prefix of length l: it returns to the
\* call on the longer prefix, which tries its mkdir again, or to
\* make_state_dir.
DirCreated(p, l, seen) ==
    IF l = Depth
    THEN DirReturn(p, Ok(l), seen)
    ELSE /\ dpc' = [dpc EXCEPT ![p] = DirAt("mkdir2", l + 1, seen, NoError)]
         /\ UNCHANGED dres

\* make_state_dir reads the variable; the `?` returns the error.
DirGetEnv(p) ==
    /\ dpc[p].at = "start"
    /\ IF dvar.kind = "ok"
       THEN /\ dpc' = [dpc EXCEPT ![p] = DirAt("mkdir1", Depth, {}, NoError)]
            /\ UNCHANGED dres
       ELSE /\ dres' = [dres EXCEPT ![p] = EnvError(dvar)]
            /\ dpc' = [dpc EXCEPT ![p] = DirAt("returned", Depth, {}, NoError)]
    /\ UNCHANGED <<dvar, fs>>
    /\ UNCHANGED notDir

\* DirBuilder::create with recursive(true), create_dir_all: the first mkdir
\* of a prefix.  NotFound sends it to the parent, another error to is_dir.
DirMkdirFirst(p) ==
    /\ dpc[p].at = "mkdir1"
    /\ LET l == dpc[p].level
           r == MkdirResult(fs, l)
           seen == IF r.kind = "ok" THEN dpc[p].seen ELSE dpc[p].seen \cup {r.val}
       IN  IF r.kind = "ok"
           THEN /\ fs' = [fs EXCEPT ![l] = "dir"]
                /\ DirCreated(p, l, seen)
           ELSE /\ UNCHANGED <<fs, dres>>
                /\ dpc' = [dpc EXCEPT ![p] =
                              IF r.val = "NotFound"
                              THEN DirAt("mkdir1", l - 1, seen, NoError)
                              ELSE DirAt("isdir", l, seen, r)]
    /\ UNCHANGED dvar
    /\ UNCHANGED notDir

\* create_dir_all: the mkdir of a prefix after its parent has been created.
DirMkdirSecond(p) ==
    /\ dpc[p].at = "mkdir2"
    /\ LET l == dpc[p].level
           r == MkdirResult(fs, l)
           seen == IF r.kind = "ok" THEN dpc[p].seen ELSE dpc[p].seen \cup {r.val}
       IN  IF r.kind = "ok"
           THEN /\ fs' = [fs EXCEPT ![l] = "dir"]
                /\ DirCreated(p, l, seen)
           ELSE /\ UNCHANGED <<fs, dres>>
                /\ dpc' = [dpc EXCEPT ![p] = DirAt("isdir", l, seen, r)]
    /\ UNCHANGED dvar
    /\ UNCHANGED notDir

\* A create that returns the error of a failed mkdir whatever the prefix is.
DirIsDirNever(p) ==
    /\ dpc[p].at = "isdir"
    /\ DirReturn(p, dpc[p].err, dpc[p].seen)
    /\ UNCHANGED <<dvar, fs>>
    /\ UNCHANGED notDir

\* create_dir_all: after a failed mkdir, a prefix that is a directory counts
\* as created; otherwise the error of the mkdir is returned, through every
\* `?`, to make_state_dir.
DirIsDir(p) ==
    /\ dpc[p].at = "isdir"
    /\ IF fs[dpc[p].level] = "dir"
       THEN DirCreated(p, dpc[p].level, dpc[p].seen)
       ELSE DirReturn(p, dpc[p].err, dpc[p].seen)
    /\ UNCHANGED <<dvar, fs>>
    /\ UNCHANGED notDir

DirNext ==
    \/ \E p \in Procs : DirGetEnv(p)
    \/ \E p \in Procs : DirMkdirFirst(p)
    \/ \E p \in Procs : DirMkdirSecond(p)
    \/ \E p \in Procs : DirIsDir(p)

DirSpecInit == DirInit /\ CopyParked /\ WrapParked /\ NegParked /\ ArgsParked
    /\ OthersParked

DirSpec == DirSpecInit /\ [][DirNext]_vars

-----------------------------------------------------------------------------
(* The argument map, its encoder and the two parsers *)

\* Most values added to one argument map.
MaxAdds == 2
\* Longest input of parse_client_parameters, in pieces of ParamPieces.
MaxParamPieces == 3
\* Longest input of parse_server_transport_options, in pieces of OptPieces.
MaxOptPieces == 3

\* Args::new(): no key.
EmptyArgs == <<>>

\* An add that replaces the values of the key.
addOverwrite(args, key, value) ==
    [k \in DOMAIN args \cup {key} |-> IF k = key THEN <<value>> ELSE args[k]]

\* Track::add: the value goes to the end of the values of the key.
add(args, key, value) ==
    [k \in DOMAIN args \cup {key} |->
        IF k = key
        THEN IF key \in DOMAIN args THEN Append(args[key], value) ELSE <<value>>
        ELSE args[k]]

\* A backslash_escape that escapes nothing.
backslash_escapeNothing(s, set) == s

\* backslash_escape: a backslash in front of every backslash and of every
\* character of the set.
backslash_escape(s, set) ==
    Flatten([i \in DOMAIN s |->
        IF s[i] = "\\" \/ s[i] \in set THEN <<"\\", s[i]>> ELSE <<s[i]>>])

\* The order of String: by the codes of the characters, a prefix first.
RECURSIVE StrLess(_, _)
StrLess(a, b) ==
    IF a = <<>> THEN b # <<>>
    ELSE IF b = <<>> THEN FALSE
    ELSE IF Code[Head(a)] # Code[Head(b)] THEN Code[Head(a)] < Code[Head(b)]
    ELSE StrLess(Tail(a), Tail(b))

\* .iter().sorted(): the keys in ascending order.
RECURSIVE SortedKeys(_)
SortedKeys(keys) ==
    IF keys = {} THEN <<>>
    ELSE LET least == CHOOSE x \in keys : \A y \in keys \ {x} : StrLess(x, y)
         IN  <<least>> \o SortedKeys(keys \ {least})

encode_smethod_args(maybe_args) ==
    IF maybe_args = None THEN <<>>
    ELSE LET args == maybe_args.val
             escape(s) == backslash_escape(s, {"=", ","})
             keys == SortedKeys(DOMAIN args)
         IN  Join([i \in DOMAIN keys |->
                     Join([j \in DOMAIN args[keys[i]] |->
                             escape(keys[i]) \o <<"=">> \o escape(args[keys[i]][j])],
                          <<",">>)],
                  <<",">>)

ParseError(m) == Error("ParseError", m)

\* char::len_utf8: the bytes a character takes in a str.
Width(c) ==
    IF c \notin DOMAIN OtherChars \/ OtherChars[c] < 128 THEN 1
    ELSE IF OtherChars[c] < 2048 THEN 2 ELSE 3

\* str::len: the length of a text in bytes.
RECURSIVE ByteLen(_)
ByteLen(s) == IF s = <<>> THEN 0 ELSE Width(Head(s)) + ByteLen(Tail(s))

\* The thread panics: the call returns nothing.
Panic(m) == Error("panic", m)

\* &s[i..]: the text from the byte index i on; a panic when i is past the
\* end of s or inside a character.
RECURSIVE SliceFrom(_, _)
SliceFrom(s, i) ==
    IF i = 0 THEN Ok(s)
    ELSE IF s = <<>> \/ i < Width(Head(s)) THEN Panic("byte index is not a char boundary")
    ELSE SliceFrom(Tail(s), i - Width(Head(s)))

\* format!(.., &s[begin..i]) in front of a ParseError: the slice panics when
\* i is inside a character (begin is where a slice was taken before).
ParseErrorAt(s, i, m) ==
    IF SliceFrom(s, i).kind = "ok" THEN ParseError(m) ELSE SliceFrom(s, i)

\* The loop of index_unescaped from the index i, with the unescaped string
\* so far.  The loop runs while i is below the length in bytes and takes the
\* i-th character, s.chars().nth(i).unwrap(), which panics when the text has
\* no more than i characters.
RECURSIVE IndexUnescapedFrom(_, _, _, _)
IndexUnescapedFrom(s, term, i, unesc) ==
    IF ~(i < ByteLen(s)) THEN Ok([offset |-> i, unesc |-> unesc])
    ELSE IF ~(i < Len(s)) THEN Panic("unwrap on None")
    ELSE IF s[i + 1] \in term THEN Ok([offset |-> i, unesc |-> unesc])
    ELSE IF s[i + 1] = "\\"
    THEN IF i + 1 >= ByteLen(s)
         THEN ParseError("nothing following final escape")
         ELSE IF ~(i + 1 < Len(s)) THEN Panic("unwrap on None")
         ELSE IndexUnescapedFrom(s, term, i + 2, Append(unesc, s[i + 2]))
    ELSE IndexUnescapedFrom(s, term, i + 1, Append(unesc, s[i + 1]))

\* An index_unescaped that takes a backslash at the end of the text for an
\* ordinary character.
index_unescapedFinal(s, term) ==
    IF Len(s) > 0 /\ s[Len(s)] = "\\"
    THEN LET r == IndexUnescapedFrom(SubSeq(s, 1, Len(s) - 1), term, 0, <<>>)
         IN  IF r.kind = "ok" /\ r.val.offset = Len(s) - 1
             THEN Ok([offset |-> Len(s), unesc |-> Append(r.val.unesc, "\\")])
             ELSE r
    ELSE IndexUnescapedFrom(s, term, 0, <<>>)

index_unescaped(s, term) == IndexUnescapedFrom(s, term, 0, <<>>)

\* The loop of parse_client_parameters from the index i.
RECURSIVE ParseClientLoop(_, _, _)
ParseClientLoop(params, i, args) ==
    LET keyText == SliceFrom(params, i)
        key == index_unescaped(keyText.val, {"=", ";"})
        afterKey == i + key.val.offset
        valueAt == afterKey + 1
        valueText == SliceFrom(params, valueAt)
        value == index_unescaped(valueText.val, {";"})
        afterValue == valueAt + value.val.offset
        more == add(args, key.val.unesc, value.val.unesc)
    IN  IF keyText.kind # "ok" THEN keyText
        ELSE IF key.kind # "ok" THEN key
        ELSE IF afterKey >= ByteLen(params) THEN ParseErrorAt(params, afterKey, "no equals sign")
        ELSE IF ~(afterKey < Len(params)) THEN Panic("unwrap on None")
        ELSE IF params[afterKey + 1] # "=" THEN ParseErrorAt(params, afterKey, "no equals sign")
        ELSE IF valueText.kind # "ok" THEN valueText
        ELSE IF value.kind # "ok" THEN value
        ELSE IF Len(key.val.unesc) = 0 THEN ParseErrorAt(params, afterValue, "empty key")
        ELSE IF afterValue >= ByteLen(params) THEN Ok(more)
        ELSE ParseClientLoop(params, afterValue + 1, more)

\* A parse_client_parameters that ignores one semicolon at the end.
parse_client_parametersTrailing(params) ==
    IF params = <<>> THEN Ok(EmptyArgs)
    ELSE IF params[Len(params)] = ";" /\ Len(params) > 1
    THEN ParseClientLoop(SubSeq(params, 1, Len(params) - 1), 0, EmptyArgs)
    ELSE ParseClientLoop(params, 0, EmptyArgs)

parse_client_parameters(params) ==
    IF params = <<>> THEN Ok(EmptyArgs)
    ELSE ParseClientLoop(params, 0, EmptyArgs)

\* A retrieve that returns the value added last.
retrieveLast(args, key) ==
    IF key \in DOMAIN args
    THEN IF Len(args[key]) = 0 THEN None ELSE Some(args[key][Len(args[key])])
    ELSE None

\* Track::retrieve: the first value of the key, None for an absent key and
\* for a key without values.
retrieve(args, key) ==
    IF key \in DOMAIN args
    THEN IF Len(args[key]) = 0 THEN None ELSE Some(args[key][1])
    ELSE None

\* Opts::new(): no transport.
EmptyOpts == <<>>

\* An entry that replaces what the transport had.
OptsEntryInsert(opts, method_name, key, value) ==
    [t \in DOMAIN opts \cup {method_name} |->
        IF t = method_name THEN [k \in {key} |-> <<value>>] ELSE opts[t]]

\* An entry that gives a new transport a key without a value.
OptsEntryNoValue(opts, method_name, key, value) ==
    [t \in DOMAIN opts \cup {method_name} |->
        IF t = method_name
        THEN IF method_name \in DOMAIN opts
             THEN add(opts[method_name], key, value)
             ELSE [k \in {key} |-> <<>>]
        ELSE opts[t]]

\* opts.entry(method_name).and_modify(|e| e.add(&key, &value))
\*     .or_insert(hashmap! {key => vec![value]})
OptsEntry(opts, method_name, key, value) ==
    [t \in DOMAIN opts \cup {method_name} |->
        IF t = method_name
        THEN IF method_name \in DOMAIN opts
             THEN add(opts[method_name], key, value)
             ELSE [k \in {key} |-> <<value>>]
        ELSE opts[t]]

\* The loop of parse_server_transport_options from the index i.
RECURSIVE ParseServerLoop(_, _, _)
ParseServerLoop(s, i, opts) ==
    LET nameText == SliceFrom(s, i)
        name == index_unescaped(nameText.val, {":", "=", ";"})
        afterName == i + name.val.offset
        keyAt == afterName + 1
        keyText == SliceFrom(s, keyAt)
        key == index_unescaped(keyText.val, {"=", ";"})
        afterKey == keyAt + key.val.offset
        valueAt == afterKey + 1
        valueText == SliceFrom(s, valueAt)
        value == index_unescaped(valueText.val, {";"})
        afterValue == valueAt + value.val.offset
        more == OptsEntry(opts, name.val.unesc, key.val.unesc, value.val.unesc)
    IN  IF nameText.kind # "ok" THEN nameText
        ELSE IF name.kind # "ok" THEN name
        ELSE IF afterName >= ByteLen(s) THEN ParseErrorAt(s, afterName, "no colon")
        ELSE IF ~(afterName < Len(s)) THEN Panic("unwrap on None")
        ELSE IF s[afterName + 1] # ":" THEN ParseErrorAt(s, afterName, "no colon")
        ELSE IF keyText.kind # "ok" THEN keyText
        ELSE IF key.kind # "ok" THEN key
        ELSE IF afterKey >= ByteLen(s) THEN ParseErrorAt(s, afterKey, "no equals sign")
        ELSE IF ~(afterKey < Len(s)) THEN Panic("unwrap on None")
        ELSE IF s[afterKey + 1] # "=" THEN ParseErrorAt(s, afterKey, "no equals sign")
        ELSE IF valueText.kind # "ok" THEN valueText
        ELSE IF value.kind # "ok" THEN value
        ELSE IF ByteLen(name.val.unesc) = 0 THEN ParseErrorAt(s, afterValue, "empty method name")
        ELSE IF ByteLen(key.val.unesc) = 0 THEN ParseErrorAt(s, afterValue, "empty key")
        ELSE IF afterValue >= ByteLen(s) THEN Ok(more)
        ELSE ParseServerLoop(s, afterValue + 1, more)

\* A parse_server_transport_options that reads the first segment only.
parse_server_transport_optionsFirst(s) ==
    LET first == index_unescaped(s, {";"})
    IN  IF Len(s) = 0 THEN Ok(EmptyOpts)
        ELSE IF first.kind # "ok" THEN first
        ELSE ParseServerLoop(SubSeq(s, 1, first.val.offset), 0, EmptyOpts)

parse_server_transport_options(s) ==
    IF Len(s) = 0 THEN Ok(EmptyOpts)
    ELSE ParseServerLoop(s, 0, EmptyOpts)

\* The keys and the values given to add.
AddKeys == {<<"k">>, <<"=", ",", "\\">>, <<";">>, <<>>}
AddValues == {<<"v">>, <<"=">>, <<",">>, <<"\\">>, <<";">>, <<>>}

\* The inputs given to parse_client_parameters are made of these pieces.
ParamPieces ==
    {<<"a", "=", "1">>, <<";", "a", "=", "2">>, <<";", "b", "=", "1">>,
     <<";">>, <<"\\">>, <<"=">>, <<"a">>}
ParamInputs == {Flatten(ps) : ps \in Strings(ParamPieces, MaxParamPieces)}

\* The number of values in a map.
RECURSIVE CountValues(_)
CountValues(args) ==
    IF DOMAIN args = {} THEN 0
    ELSE LET k == CHOOSE k \in DOMAIN args : TRUE
         IN  Len(args[k]) + CountValues([j \in DOMAIN args \ {k} |-> args[j]])

\* The inputs given to parse_server_transport_options are made of these
\* pieces.
OptPieces ==
    {<<"t", ":", "k", "=", "1">>, <<";", "u", ":", "k", "=", "2">>,
     <<";", "t", ":", "k", "=", "3">>, <<";", "t", ":", "j", "=", "4">>,
     <<";">>, <<"\\">>, <<":">>, <<"=">>, <<"t">>}
OptInputs == {Flatten(ps) : ps \in Strings(OptPieces, MaxOptPieces)}

\* The map of test_get_args, written with hashmap!: the key a has no value.
GetArgs ==
    [k \in {<<"a">>, <<"b">>, <<"c">>} |->
        IF k = <<"a">> THEN <<>>
        ELSE IF k = <<"b">> THEN << <<"v", "a", "l", "u", "e">> >>
        ELSE << <<"v", "1">>, <<"v", "2">>, <<"v", "3">> >>]
\* The keys test_get_args asks for.
GetKeys == {<<"a">>, <<"b">>, <<"c">>, <<"d">>}

ArgsInit ==
    /\ amap = EmptyArgs
    /\ apc = "new"
    /\ enc = NoReturn
    /\ given = NoReturn
    /\ parsed = NoReturn
    /\ alog = <<>>
    /\ aret = NoReturn

\* args.add(key, value)
ArgsAdd(key, value) ==
    /\ apc = "new"
    /\ CountValues(amap) < MaxAdds
    /\ amap' = add(amap, key, value)
    /\ alog' = Append(alog, <<key, value>>)
    /\ UNCHANGED <<apc, enc, given, parsed, aret>>
    /\ UNCHANGED notArgs

\* args.retrieve(key), on the map built by add or on the map of
\* test_get_args.
ArgsRetrieve(args, key) ==
    /\ apc = "new"
    /\ args = amap \/ amap = EmptyArgs
    /\ aret' = [args |-> args, key |-> key, res |-> retrieve(args, key)]
    /\ apc' = "retrieved"
    /\ UNCHANGED <<amap, enc, given, parsed, alog>>
    /\ UNCHANGED notArgs

\* encode_smethod_args(Some(&args))
ArgsEncode ==
    /\ apc = "new"
    /\ enc' = encode_smethod_args(Some(amap))
    /\ apc' = "encoded"
    /\ UNCHANGED <<amap, given, parsed, alog, aret>>
    /\ UNCHANGED notArgs

\* encode_smethod_args(None), and encode_smethod_args on a map written with
\* hashmap!.
ArgsEncodeOther(maybe_args) ==
    /\ apc = "new"
    /\ amap = EmptyArgs
    /\ given' = maybe_args
    /\ enc' = encode_smethod_args(maybe_args)
    /\ apc' = "encoded_other"
    /\ UNCHANGED <<amap, parsed, alog, aret>>
    /\ UNCHANGED notArgs

\* parse_client_parameters on the output of the encoder.
ArgsParseEncoded ==
    /\ apc = "encoded"
    /\ given' = enc
    /\ parsed' = parse_client_parameters(enc)
    /\ apc' = "decoded"
    /\ UNCHANGED <<amap, enc, alog, aret>>
    /\ UNCHANGED notArgs

\* parse_client_parameters on an input.
ArgsParse(s) ==
    /\ apc = "new"
    /\ amap = EmptyArgs
    /\ given' = s
    /\ parsed' = parse_client_parameters(s)
    /\ apc' = "parsed"
    /\ UNCHANGED <<amap, enc, alog, aret>>
    /\ UNCHANGED notArgs

\* parse_server_transport_options on an input.
ArgsParseServer(s) ==
    /\ apc = "new"
    /\ amap = EmptyArgs
    /\ given' = s
    /\ parsed' = parse_server_transport_options(s)
    /\ apc' = "parsed_server"
    /\ UNCHANGED <<amap, enc, alog, aret>>
    /\ UNCHANGED notArgs

\* Longest input with multi-byte characters, in pieces of WidePieces.
MaxWidePieces == 3

\* The inputs with multi-byte characters are made of these pieces; U+00E9
\* takes two bytes.
WidePieces == {<<"U+00E9">>, <<"a">>, <<"=">>, <<"t", ":">>, <<";">>}
WideInputs ==
    {w \in {Flatten(ps) : ps \in Strings(WidePieces, MaxWidePieces)} :
        \E i \in DOMAIN w : Width(w[i]) > 1}

\* One of the two parsers on an input that holds a multi-byte character.
ArgsParseWide(fn, s) ==
    /\ apc = "new"
    /\ amap = EmptyArgs
    /\ given' = s
    /\ parsed' = IF fn = "client" THEN parse_client_parameters(s)
                                  ELSE parse_server_transport_options(s)
    /\ apc' = "parsed_wide_" \o fn
    /\ UNCHANGED <<amap, enc, alog, aret>>
    /\ UNCHANGED notArgs

\* The parsers run on a fresh map only.
ArgsNext ==
    \/ \E k \in AddKeys, v \in AddValues : ArgsAdd(k, v)
    \/ \E args \in {amap, GetArgs}, k \in AddKeys \cup GetKeys :
           ArgsRetrieve(args, k)
    \/ ArgsEncode
    \/ \E m \in {None, Some(GetArgs)} : ArgsEncodeOther(m)
    \/ ArgsParseEncoded
    \/ amap = EmptyArgs /\ \E s \in ParamInputs : ArgsParse(s)
    \/ amap = EmptyArgs /\ \E s \in OptInputs : ArgsParseServer(s)
    \/ amap = EmptyArgs /\ \E fn \in {"client", "server"}, s \in WideInputs : ArgsParseWide(fn, s)

ArgsSpecInit == ArgsInit /\ CopyParked /\ WrapParked /\ NegParked /\ DirParked
    /\ OthersParked

ArgsSpec == ArgsSpecInit /\ [][ArgsNext]_vars

-----------------------------------------------------------------------------
(* The bind addresses of the server: get_server_bindaddrs *)

\* Longest value of TOR_PT_SERVER_BINDADDR, in pieces of BindPieces.
MaxBindPieces == 3

AddrParseError(m) == Error("AddrParseError", m)

\* The address texts of the model: an IPv4 address with a port, the same
\* with another port, an IPv6 address with a port and without brackets, and
\* an IPv4 address without a port.
AddrV4 == <<"1", ".", "2", ".", "3", ".", "4", ":", "8", "0">>
AddrV4Other == <<"1", ".", "2", ".", "3", ".", "4", ":", "8", "1">>
AddrV6Bare == <<":", ":", "1", ":", "8", "0">>
AddrNoPort == <<"1", ".", "2", ".", "3", ".", "4">>

\* str::parse::<SocketAddr>() on the texts that occur: an IPv4 address and a
\* port, or a bracketed IPv6 address and a port.
SocketAddrParse(t) ==
    IF t = AddrV4 THEN Ok([ip |-> "1.2.3.4", port |-> 80])
    ELSE IF t = AddrV4Other THEN Ok([ip |-> "1.2.3.4", port |-> 81])
    ELSE IF t = <<"[", ":", ":", "1", "]", ":", "8", "0">>
    THEN Ok([ip |-> "::1", port |-> 80])
    ELSE AddrParseError("invalid socket address syntax")

\* resolve_addr: the address as it is, or, when it has more than one colon,
\* with everything before the last colon in brackets. (The bracketed text is
\* also printed; standard output is no part of the state of this part.)
resolve_addr(addr_str) ==
    LET parts == SplitChar(addr_str, ":")
        port == parts[Len(parts)]
        addr == <<"[">> \o Join(SubSeq(parts, 1, Len(parts) - 1), <<":">>)
                    \o <<"]", ":">> \o port
    IN  IF SocketAddrParse(addr_str).kind = "ok" THEN SocketAddrParse(addr_str)
        ELSE IF Len(parts) <= 2 THEN SocketAddrParse(addr_str)
        ELSE SocketAddrParse(addr)

BindAddr(method_name, addr, options) ==
    [method_name |-> method_name, addr |-> addr, options |-> options]

\* A filter that keeps every record.
filter_bindaddrsAll(bindaddrs, method_names) == bindaddrs

\* filter_bindaddrs: the records whose method name is one of the names, in
\* their order.
filter_bindaddrs(bindaddrs, method_names) ==
    LET Named(a) == \E i \in DOMAIN method_names : method_names[i] = a.method_name
    IN  SelectSeq(bindaddrs, Named)

\* A duplicate check that finds nothing.
SeenContainsNever(seen, method_name) == FALSE

\* seen.contains(&method_name)
SeenContains(seen, method_name) == \E j \in DOMAIN seen : seen[j] = method_name

\* The for loop of get_server_bindaddrs from the segment i.
RECURSIVE BindaddrLoop(_, _, _, _, _)
BindaddrLoop(specs, i, seen, addrs, options_map) ==
    IF i > Len(specs) THEN Ok(addrs)
    ELSE LET parts == SplitChar(specs[i], "-")
             method_name == parts[1]
             addr == resolve_addr(parts[2])
             options == IF method_name \in DOMAIN options_map
                        THEN options_map[method_name]
                        ELSE EmptyArgs
         IN  IF Len(parts) # 2 THEN ParseError("doesn't contain \"-\"")
             ELSE IF SeenContains(seen, method_name)
             THEN ParseError("duplicate method name")
             ELSE IF addr.kind # "ok" THEN addr
             ELSE BindaddrLoop(specs, i + 1, Append(seen, method_name),
                      Append(addrs, BindAddr(method_name, addr.val, options)),
                      options_map)

\* A get_server_bindaddrs that filters the segments by the enabled names
\* before it looks at them.
get_server_bindaddrsFilterFirst(server_transport_options, server_bindaddr, server_transports_env) ==
    LET options_map == parse_server_transport_options(server_transport_options.val)
        names == SplitChar(server_transports_env.val, ",")
        Enabled(spec) == \E i \in DOMAIN names : names[i] = SplitChar(spec, "-")[1]
        addrs == BindaddrLoop(SelectSeq(SplitChar(server_bindaddr.val, ","), Enabled),
                              1, <<>>, <<>>, options_map.val)
    IN  IF server_transport_options.kind # "ok"
        THEN EnvError(server_transport_options)
        ELSE IF options_map.kind # "ok" THEN options_map
        ELSE IF server_bindaddr.kind # "ok" THEN EnvError(server_bindaddr)
        ELSE IF server_transports_env.kind # "ok"
        THEN EnvError(server_transports_env)
        ELSE addrs

\* get_server_bindaddrs, given what env::var returns for the three
\* variables.
get_server_bindaddrs(server_transport_options, server_bindaddr, server_transports_env) ==
    LET options_map == parse_server_transport_options(server_transport_options.val)
        addrs == BindaddrLoop(SplitChar(server_bindaddr.val, ","), 1, <<>>, <<>>,
                              options_map.val)
    IN  IF server_transport_options.kind # "ok"
        THEN EnvError(server_transport_options)
        ELSE IF options_map.kind # "ok" THEN options_map
        ELSE IF server_bindaddr.kind # "ok" THEN EnvError(server_bindaddr)
        ELSE IF addrs.kind # "ok" THEN addrs
        ELSE IF server_transports_env.kind # "ok"
        THEN EnvError(server_transports_env)
        ELSE Ok(filter_bindaddrs(addrs.val, SplitChar(server_transports_env.val, ",")))

\* The values of TOR_PT_SERVER_BINDADDR are made of these pieces.
BindPieces ==
    {<<"t", "-">> \o AddrV4, <<",", "u", "-">> \o AddrV6Bare,
     <<",", "t", "-">> \o AddrV4, <<",", "t", "-">> \o AddrV4Other,
     <<",", "*", "-">> \o AddrV4Other, <<",", "u", "-">> \o AddrNoPort,
     <<"-">>, <<",", "u">>}
BindaddrValues == {Flatten(ps) : ps \in Strings(BindPieces, MaxBindPieces)}
\* The values of TOR_PT_SERVER_TRANSPORT_OPTIONS: none, options of one
\* transport, of two, and a text that is no list of options.
OptionsValues ==
    {<<>>, <<"t", ":", "k", "=", "1">>,
     <<"t", ":", "k", "=", "1", ";", "*", ":", "j", "=", "2", ";", "t", ":", "k", "=", "3">>,
     <<"t", ":", "k">>}
\* The values of TOR_PT_SERVER_TRANSPORTS.
TransportsValues ==
    {<<>>, <<"u">>, <<"*">>, <<"u", ",", "t">>, <<"t", ",", "*">>}
\* What env::var returns for a variable of the server: it is unset, or it
\* has one of the values.
ServerEnv(values) == {EnvNotPresent} \cup {EnvOk(v) : v \in values}

BindInit ==
    /\ benv = NoEnv
    /\ bres = NoReturn

\* One call of get_server_bindaddrs in an environment.
GetServerBindaddrs(o, b, t) ==
    /\ bres = NoReturn
    /\ benv' = [options |-> o, bindaddr |-> b, transports |-> t]
    /\ bres' = get_server_bindaddrs(o, b, t)
    /\ UNCHANGED notBind

\* The function is called once.
BindNext ==
    /\ bres = NoReturn
    /\ \E o \in ServerEnv(OptionsValues), b \in ServerEnv(BindaddrValues),
          t \in ServerEnv(TransportsValues) : GetServerBindaddrs(o, b, t)

BindSpecInit ==
    /\ BindInit /\ CopyParked /\ WrapParked /\ NegParked /\ DirParked
    /\ ArgsParked /\ TextParked /\ ProxyParked /\ InterParked

BindSpec == BindSpecInit /\ [][BindNext]_vars

-----------------------------------------------------------------------------
(* The text functions of pt.rs: arg_is_safe, encode_cstring, decode_cstring *)

\* Longest string given to the text functions, in characters.
MaxTextLen == 2

\* char::from_u32
CharFromU32(n) == CHOOSE c \in Chars : Code[c] = n
Quote == "U+0022"
IsOctalDigit(c) == c \in {"0", "1", "2", "3", "4", "5", "6", "7"}
\* c.to_digit(8) of an octal digit.
ToDigit(c) == Code[c] - 48

\* format!("{:03o}", n) for a u8: three octal digits.
Octal3(n) ==
    <<CharFromU32(48 + (n \div 64)), CharFromU32(48 + ((n \div 8) % 8)),
      CharFromU32(48 + (n % 8))>>

\* format!("{:o}", n): as few octal digits as the number needs.
OctalShort(n) ==
    IF n < 8 THEN <<CharFromU32(48 + n)>>
    ELSE IF n < 64 THEN <<CharFromU32(48 + (n \div 8)), CharFromU32(48 + (n % 8))>>
    ELSE Octal3(n)

\* An encode_cstring whose escapes have as few digits as possible.
encode_cstringShort(s) ==
    <<Quote>>
    \o Flatten([i \in DOMAIN s |->
            LET b == Code[s[i]]
            IN  IF b \in 32..33 \/ b \in 35..91 \/ b \in 93..126
                THEN <<s[i]>>
                ELSE <<"\\">> \o OctalShort(b % 256)])
    \o <<Quote>>

\* encode_cstring: between two quotes, the characters ' ' to '!', '#' to '['
\* and ']' to '~' as they are, every other one as a backslash and the three
\* octal digits of the character cast to u8.
encode_cstring(s) ==
    <<Quote>>
    \o Flatten([i \in DOMAIN s |->
            LET b == Code[s[i]]
            IN  IF b \in 32..33 \/ b \in 35..91 \/ b \in 93..126
                THEN <<s[i]>>
                ELSE <<"\\">> \o Octal3(b % 256)])
    \o <<Quote>>

\* The loop of decode_cstring at the index i in the state st; res is the
\* result so far.
RECURSIVE DecodeFrom(_, _, _, _, _)
DecodeFrom(b, i, st, num, res) ==
    IF ~(i < Len(b)) THEN Ok(res)
    ELSE LET c == b[i + 1]
             Go(st2, num2, res2) == DecodeFrom(b, i + 1, st2, num2, res2)
             Again == IF num > 255 THEN ParseError("invalid octal escape")
                      ELSE DecodeFrom(b, i, ".", num,
                                      Append(res, CharFromU32(num)))
             digit == num * 8 + ToDigit(c)
         IN  CASE st = "^" ->
                    IF c # Quote THEN ParseError("missing start quote")
                    ELSE Go(".", num, res)
               [] st = "." ->
                    IF c = "\\" THEN Go("\\", num, res)
                    ELSE IF c = Quote THEN Go("$", num, res)
                    ELSE Go(".", num, Append(res, c))
               [] st = "\\" ->
                    IF c = "n" THEN Go(".", num, Append(res, "\n"))
                    ELSE IF c = "t" THEN Go(".", num, Append(res, "\t"))
                    ELSE IF c = "r" THEN Go(".", num, Append(res, "\r"))
                    ELSE IF c \in {Quote, "\\"} THEN Go(".", num, Append(res, c))
                    ELSE IF IsOctalDigit(c) THEN Go("o1", ToDigit(c), res)
                    ELSE ParseError("unknown escape sequence")
               [] st = "o1" ->
                    IF IsOctalDigit(c) THEN Go("o2", digit, res)
                    ELSE Again
               [] st = "o2" ->
                    IF IsOctalDigit(c)
                    THEN IF digit > 255 THEN ParseError("invalid octal escape")
                         ELSE Go(".", digit, Append(res, CharFromU32(digit)))
                    ELSE Again
               [] st = "$" -> ParseError("trailing garbage")

decode_cstring(encoded) == DecodeFrom(encoded, 0, "^", 0, <<>>)

\* The characters of the strings given to the text functions.
TextChars ==
    {"U+0000", "U+0001", "\n", " ", Quote, "2", "7", "a", "\\", "~", "U+007F",
     "U+0080", "U+00E9", "U+00FF", "U+0100", "U+0141"}
TextInputs == Strings(TextChars, MaxTextLen)

TextInit ==
    /\ sarg = NoReturn
    /\ sres = NoReturn

\* arg_is_safe(s)
ArgIsSafe(s) ==
    /\ sres = NoReturn
    /\ sarg' = s
    /\ sres' = [fn |-> "arg_is_safe", ret |-> arg_is_safe(s)]
    /\ UNCHANGED notText

\* rountrip_encode_cstring: let enc = encode_cstring(src)
EncodeCstring(s) ==
    /\ sres = NoReturn
    /\ sarg' = s
    /\ sres' = [fn |-> "encode_cstring", ret |-> encode_cstring(s)]
    /\ UNCHANGED notText

\* rountrip_encode_cstring: decode_cstring(&enc)
DecodeCstring ==
    /\ sres.fn = "encode_cstring"
    /\ sres' = [fn |-> "decode_cstring", enc |-> sres.ret,
                ret |-> decode_cstring(sres.ret)]
    /\ UNCHANGED sarg
    /\ UNCHANGED notText

\* Each function is called on a string of its own.
TextNext ==
    \/ sres = NoReturn /\ \E s \in TextInputs : ArgIsSafe(s)
    \/ sres = NoReturn /\ \E s \in TextInputs : EncodeCstring(s)
    \/ DecodeCstring

TextSpecInit ==
    /\ TextInit /\ CopyParked /\ WrapParked /\ NegParked /\ DirParked
    /\ ArgsParked /\ BindParked /\ ProxyParked /\ InterParked

TextSpec == TextSpecInit /\ [][TextNext]_vars

-----------------------------------------------------------------------------
(* Part 8: the accept loops of the proxy and the tasks they spawn *)

\* The number of connections the listener accepts in a run.
MaxConns == 2
\* The number of writes the copy of one connection issues at most.
MaxWrites == 2

ConnIds == 1..MaxConns

\* EntranceConfig::run, ExitConfig::run and EchoHandler::handle_listener.
Modes == {"Entrance", "Exit", "Listener"}

Accepting == [st |-> "accepting", cause |-> "none"]
Ended(cause) == [st |-> "ended", cause |-> cause]

\* A connection the listener has not accepted yet.
NoTask == [st |-> "none", end |-> "none", writes |-> 0, late |-> 0]
\* tokio::spawn of the task of an accepted connection; the task of
\* EntranceConfig::run has its wrap still to do.
Spawned(m) == [NoTask EXCEPT !.st = IF m = "Entrance" THEN "spawned" ELSE "copying"]
\* The task has returned, or the connection never got one.
TaskEnded(t, end) == [t EXCEPT !.st = "done", !.end = end]

\* The number of connections accepted so far.
Accepted == Cardinality({c \in ConnIds : ptasks[c].st # "none"})

\* What one pass of the accept loop can meet, per loop: accept fails,
\* TcpStream::connect fails, builder.build fails, transport.wrap fails in
\* the loop (ExitConfig::run only), or the task is spawned.
LoopOutcomes(m) ==
    CASE m = "Entrance" -> {"accept_error", "connect_error", "build_error", "ok"}
      [] m = "Exit" -> {"accept_error", "build_error", "wrap_error", "ok"}
      [] OTHER -> {"accept_error", "ok"}

\* ExitConfig::run, Err(e) of transport.wrap: error!(..); continue.
ExitWrapErrReturn(lp) == Ended("wrap_error")
ExitWrapErr(lp) == lp

\* One pass of the accept loop: listener.accept().await? and what follows
\* it up to tokio::spawn.
ProxyAccept(o) ==
    /\ pmode \in Modes
    /\ ploop = Accepting
    /\ Accepted < MaxConns
    /\ o \in LoopOutcomes(pmode)
    /\ LET c == Accepted + 1 IN
          CASE o = "ok" ->
                 /\ ptasks' = [ptasks EXCEPT ![c] = Spawned(pmode)]
                 /\ ploop' = ploop
            [] o = "wrap_error" ->
                 /\ ptasks' = [ptasks EXCEPT ![c] = TaskEnded(NoTask, "wrap_error")]
                 /\ ploop' = ExitWrapErr(ploop)
            [] OTHER ->
                 /\ ptasks' = ptasks
                 /\ ploop' = Ended(o)
    /\ UNCHANGED <<pmode, ptoken>>
    /\ UNCHANGED notProxy

\* EchoHandler::handle_listener: the cancelled branch of the select! around
\* accept breaks the loop.
ListenerCancelled ==
    /\ pmode = "Listener"
    /\ ploop = Accepting
    /\ ptoken
    /\ ploop' = Ended("cancelled")
    /\ UNCHANGED <<pmode, ptasks, ptoken>>
    /\ UNCHANGED notProxy

\* The task of EntranceConfig::run: transport.wrap(Box::new(in_stream)), and
\* return when it fails.
TaskWrap(c, ok) ==
    /\ ptasks[c].st = "spawned"
    /\ ptasks' = [ptasks EXCEPT ![c] =
                    IF ok THEN [@ EXCEPT !.st = "copying"] ELSE TaskEnded(@, "wrap_error")]
    /\ UNCHANGED <<pmode, ploop, ptoken>>
    /\ UNCHANGED notProxy

\* What one poll of the copy future does: it writes and stays pending, it
\* stays pending without a write, or it is ready with Ok or with an error.
CopyPolls == {"wrote", "pending", "ok", "err"}

\* The branches of tokio::select!, which polls them in an order it picks at
\* random (the macro is used without biased).
Branches == {"copy", "cancelled"}

\* The copy branch is polled unless the cancelled branch was polled first
\* and was ready.
CopyPolled(first, cancelled) == ~(first = "cancelled" /\ cancelled)

\* One poll of tokio::select! { copy, cancelled } in the task t.
SelectPoll(t, first, o, cancelled) ==
    IF ~CopyPolled(first, cancelled) THEN TaskEnded(t, "cancelled")
    ELSE LET w == IF o = "wrote" THEN 1 ELSE 0
             t1 == [t EXCEPT !.writes = @ + w, !.late = @ + (IF cancelled THEN w ELSE 0)]
         IN  CASE o = "ok" -> TaskEnded(t1, "copy_ok")
               [] o = "err" -> TaskEnded(t1, "copy_error")
               [] cancelled -> TaskEnded(t1, "cancelled")
               [] OTHER -> t1

\* The executor polls the task of connection c, which is in its select!.
\* A poll that finds the copy pending and changes nothing is left out.
TaskPoll(c, first, o) ==
    /\ ptasks[c].st = "copying"
    /\ o = "wrote" => ptasks[c].writes < MaxWrites
    /\ o = "pending" => ptoken
    /\ ptasks' = [ptasks EXCEPT ![c] = SelectPoll(@, first, o, ptoken)]
    /\ UNCHANGED <<pmode, ploop, ptoken>>
    /\ UNCHANGED notProxy

\* close.cancel() by the owner of the token.
Cancel ==
    /\ pmode \in Modes
    /\ ~ptoken
    /\ ptoken' = TRUE
    /\ UNCHANGED <<pmode, ploop, ptasks>>
    /\ UNCHANGED notProxy

ProxyInit ==
    /\ pmode \in Modes
    /\ ploop = Accepting
    /\ ptasks = [c \in ConnIds |-> NoTask]
    /\ ptoken = FALSE

ProxyNext ==
    \/ \E o \in {"accept_error", "connect_error", "build_error", "wrap_error", "ok"} : ProxyAccept(o)
    \/ ListenerCancelled
    \/ \E c \in ConnIds, ok \in BOOLEAN : TaskWrap(c, ok)
    \/ \E c \in ConnIds, first \in Branches, o \in CopyPolls : TaskPoll(c, first, o)
    \/ Cancel

ProxySpecInit ==
    /\ ProxyInit /\ CopyParked /\ WrapParked /\ NegParked /\ DirParked
    /\ ArgsParked /\ BindParked /\ TextParked /\ InterParked

ProxySpec == ProxySpecInit /\ [][ProxyNext]_vars

-----------------------------------------------------------------------------
(* Part 9: copy_interactive *)

\* The number of reads copy_interactive issues at most in a run.
MaxReads == 3

IoError(op) == Error("IoError", op)

\* The operations of the history.
ReadOps == {"read_data", "read_eof", "read_err", "read_pending"}
AwaitOps == {"await_data", "await_eof", "await_err"}
WriteOps == {"write_ok", "write_err"}
FlushOps == {"flush_ok", "flush_err"}
CloseOps == {"close_ok", "close_err"}

\* The reads issued so far: reader.read(&mut buf[..]) at the top of the loop.
ReadsIssued(ops) == Cardinality({i \in 1..Len(ops) : ops[i] \in ReadOps})

\* The arm of match poll!(&mut read_future) taken for each result of the
\* poll: break, write_all and continue, or flush.
PollArmNoFlush(o) == IF o \in {"err", "eof"} THEN "finish" ELSE IF o = "data" THEN "write" ELSE "await"
PollArm(o) == IF o \in {"err", "eof"} THEN "finish" ELSE IF o = "data" THEN "write" ELSE "flush"

\* The value the loop breaks with.
BreakValue(o) == IF o = "err" THEN IoError("read") ELSE IF o = "eof" THEN Ok(<<>>) ELSE None

\* let mut read_future = reader.read(..); match poll!(&mut read_future).
InterPoll(o) ==
    /\ ipc = "poll"
    /\ ReadsIssued(iops) < MaxReads
    /\ iops' = Append(iops, "read_" \o o)
    /\ ipc' = PollArm(o)
    /\ iloop' = BreakValue(o)
    /\ UNCHANGED ires
    /\ UNCHANGED notInter

\* writer.write_all(&buf[..n]).await? in either match: an error returns it.
InterWrite(o) ==
    /\ ipc = "write"
    /\ iops' = Append(iops, "write_" \o o)
    /\ IF o = "ok"
          THEN ipc' = "poll" /\ ires' = ires
          ELSE ipc' = "returned" /\ ires' = IoError("write")
    /\ UNCHANGED iloop
    /\ UNCHANGED notInter

\* Poll::Pending => writer.flush().await?.
InterFlush(o) ==
    /\ ipc = "flush"
    /\ iops' = Append(iops, "flush_" \o o)
    /\ IF o = "ok"
          THEN ipc' = "await" /\ ires' = ires
          ELSE ipc' = "returned" /\ ires' = IoError("flush")
    /\ UNCHANGED iloop
    /\ UNCHANGED notInter

\* match read_future.await: the pending read completes.
InterAwait(o) ==
    /\ ipc = "await"
    /\ iops' = Append(iops, "await_" \o o)
    /\ ipc' = IF o = "data" THEN "write" ELSE "finish"
    /\ iloop' = BreakValue(o)
    /\ UNCHANGED ires
    /\ UNCHANGED notInter

\* if loop_result.is_ok() { writer.close().await } else { writer.flush().await }
FinishOpClose(lr) == "close"
FinishOp(lr) == IF lr.kind = "ok" THEN "close" ELSE "flush"

\* Result::or: self when it is Ok, the argument otherwise.
ResultOr(self, res) == IF self.kind = "ok" THEN self ELSE res

\* The close or the flush after the loop, and the return of
\* loop_result.or(flush_result).
InterFinish(o) ==
    /\ ipc = "finish"
    /\ LET op == FinishOp(iloop)
           flush_result == IF o = "ok" THEN Ok(<<>>) ELSE IoError(op)
       IN  /\ iops' = Append(iops, op \o "_" \o o)
           /\ ires' = ResultOr(iloop, flush_result)
    /\ ipc' = "returned"
    /\ UNCHANGED iloop
    /\ UNCHANGED notInter

InterInit ==
    /\ ipc = "poll"
    /\ iloop = None
    /\ iops = <<>>
    /\ ires = NoReturn

InterNext ==
    \/ \E o \in {"data", "eof", "err", "pending"} : InterPoll(o)
    \/ \E o \in {"ok", "err"} : InterWrite(o)
    \/ \E o \in {"ok", "err"} : InterFlush(o)
    \/ \E o \in {"data", "eof", "err"} : InterAwait(o)
    \/ \E o \in {"ok", "err"} : InterFinish(o)

InterSpecInit ==
    /\ InterInit /\ CopyParked /\ WrapParked /\ NegParked /\ DirParked
    /\ ArgsParked /\ BindParked /\ TextParked /\ ProxyParked

InterSpec == InterSpecInit /\ [][InterNext]_vars

-----------------------------------------------------------------------------
(* Properties of the copy engine (Spec, LiveSpec) *)

IsPrefix(s, t) == Len(s) <= Len(t) /\ s = SubSeq(t, 1, Len(s))

IsDone(d) == state[d].tag = "Done"

\* C1: copy_bidirectional returns its pair of counts only when both
\* directions are Done: a poll that reaches the end of the closure while a
\* direction is not Done returns Pending (the future stays pending), and by
\* then both directions have been polled in that turn, so the unfinished one
\* keeps being driven.  (An I/O error ends the future at once: that is C5.)
C1_CompletesOnlyWhenBothDone ==
    /\ [](result.kind = "ok" => \A d \in Dirs : IsDone(d))
    /\ [](pc = "ready" => \A d \in Dirs : ret[d].kind \in {"pending", "ready"})
    /\ [][pc = "ready" /\ (\E d \in Dirs : ~IsDone(d))
             => pc' = "idle" /\ result' = NoResult]_vars

\* One direction is Done, the other still Running, and the last poll of the
\* future returned Pending after polling both.
C1_Witness ==
    /\ pc = "idle"
    /\ result = NoResult
    /\ IsDone("a_to_b")
    /\ state["b_to_a"].tag = "Running"
    /\ ret["a_to_b"].kind = "ready"
    /\ ret["b_to_a"].kind = "pending"

\* C2: in each direction, once the reader has reported end-of-stream no
\* read is issued on it again; shutdown is invoked on the writer of that
\* direction, only after that end-of-stream, and has completed exactly once
\* when the direction is Done; a direction leaves Running only on its own
\* reader's end-of-stream, and a step of one direction changes nothing of the
\* other direction, which goes on copying.
C2_EofThenShutdown ==
    /\ [](~lateRead)
    /\ [](\A d \in Dirs :
            /\ shut[Writer(d)] # "open" => eof[Reader(d)]
            /\ state[d].tag # "Running" => eof[Reader(d)]
            /\ eof[Reader(d)] => cbuf[d].read_done /\ inbound[Reader(d)] = <<>>
            /\ IsDone(d) => shut[Writer(d)] = "closed"
            /\ shut[Writer(d)] \in {"open", "closing", "closed"})
    /\ [][\A d \in Dirs :
            pc = d => /\ state'[Other(d)] = state[Other(d)]
                      /\ cbuf'[Other(d)] = cbuf[Other(d)]
                      /\ eof'[Reader(Other(d))] = eof[Reader(Other(d))]
                      /\ shut'[Writer(Other(d))] = shut[Writer(Other(d))]]_vars

\* a_to_b is Done and b is shut down, while b_to_a is still copying: it has
\* bytes in its buffer and its reader has more to deliver.
C2_Witness ==
    /\ IsDone("a_to_b")
    /\ shut["b"] = "closed"
    /\ state["b_to_a"].tag = "Running"
    /\ pc = "b_to_a"
    /\ cbuf["b_to_a"].pos < cbuf["b_to_a"].cap
    /\ inbound["b"] # <<>>
    /\ ~eof["b"]

\* C3: the TransferState of a direction changes only from Running to
\* ShuttingDown(count) and from ShuttingDown(count) to Done(count); Done never
\* changes, and a poll of a Done direction returns the stored count.
C3_TransferStateOrder ==
    /\ [][\A d \in Dirs :
            state'[d] # state[d] =>
               \/ state[d].tag = "Running" /\ state'[d].tag = "ShuttingDown"
               \/ /\ state[d].tag = "ShuttingDown"
                  /\ state'[d] = Done(state[d].count)]_vars
    /\ [](\A d \in Dirs : ret[d].kind = "ready" => state[d] = Done(ret[d].n))

\* A Done direction has been polled again and has returned its stored count
\* while the other direction is still at work.
C3_Witness ==
    /\ state["a_to_b"] = Done(2)
    /\ ret["a_to_b"] = Ready(2)
    /\ state["b_to_a"].tag = "ShuttingDown"
    /\ pc = "b_to_a"

\* C4: the step in which a read, a write, a flush or a shutdown fails
\* leaves both TransferStates as they were and makes transfer_one_direction
\* return the error in that same poll.
C4_ErrorKeepsState ==
    [][~ioFailed /\ ioFailed' =>
          /\ state' = state
          /\ pc \in Dirs
          /\ ret'[pc] = Err
          /\ ret'[Other(pc)] = ret[Other(pc)]]_vars

\* A shutdown has failed: the direction is still ShuttingDown with its count.
C4_Witness ==
    /\ ioFailed
    /\ ret["a_to_b"] = Err
    /\ state["a_to_b"] = ShuttingDown(1)

\* C5: as soon as an I/O operation of either direction has failed the
\* future has returned an error, whatever the state of the other direction,
\* and it returns its pair of counts only if no I/O operation has failed.
C5_ErrorEndsCopy ==
    /\ ioFailed => result = ResErr /\ pc = "done"
    /\ result.kind = "ok" => ~ioFailed
    /\ result.kind = "err" => ioFailed

\* b_to_a has failed after a_to_b was Done.
C5_Witness ==
    /\ result = ResErr
    /\ ret["b_to_a"] = Err
    /\ IsDone("a_to_b")
    /\ state["b_to_a"].tag = "Running"

\* C6: in each direction the bytes written to the writer are a prefix of the
\* bytes read from the reader (same order, none twice), and the bytes written
\* to a connection change only in a step of the direction that writes to it.
C6_WrittenIsPrefixOfRead ==
    /\ [](\A d \in Dirs : IsPrefix(wlog[Writer(d)], rlog[Reader(d)]))
    /\ [][\A d \in Dirs : wlog'[Writer(d)] # wlog[Writer(d)] => pc = d]_vars

\* Both directions have written part of what they have read.
C6_Witness ==
    /\ Len(rlog["a"]) = 2 /\ Len(wlog["b"]) = 1
    /\ Len(rlog["b"]) = 2 /\ Len(wlog["a"]) = 1

\* C7: a successful copy returns (n_ab, n_ba) in that order, n_ab the
\* number of bytes read from a and written to b and n_ba the number read from
\* b and written to a; the count of ShuttingDown and Done is the number of
\* bytes the direction has moved.
C7_ReturnsCounts ==
    /\ result.kind = "ok" =>
          /\ result.a_to_b = Len(rlog["a"]) /\ result.a_to_b = Len(wlog["b"])
          /\ result.b_to_a = Len(rlog["b"]) /\ result.b_to_a = Len(wlog["a"])
    /\ \A d \in Dirs :
          state[d].tag # "Running" =>
             /\ state[d].count = Len(rlog[Reader(d)])
             /\ state[d].count = Len(wlog[Writer(d)])

\* The copy has returned different counts for the two directions.
C7_Witness == result = ResOk(2, 1)

\* C8: under fair polling, when every I/O operation that is tried again
\* and again eventually completes and none fails, copy_bidirectional
\* eventually returns Ok.
C8_EventuallyOk == <>(result.kind = "ok" \/ ioFailed)

\* Both readers have reported end-of-stream and the copy has returned Ok.
C8_Witness ==
    /\ result.kind = "ok"
    /\ ~ioFailed
    /\ eof["a"] /\ eof["b"]
    /\ rlog["a"] # <<>>

-----------------------------------------------------------------------------
(* Properties of wrap and Combined (WrapSpec) *)

\* C9: on the stream that wrap (or combine) returns, a read is served by
\* the read half alone and a write, a flush and a shutdown by the write half
\* alone: an operation changes one half only, and never a half that is not
\* part of the stream, so the halves may belong to two connections.
C9_HalvesAreIndependent ==
    /\ [](\A c \in RawConns :
            /\ \A i \in 1..Len(raw[c].r) : raw[c].r[i] = "read"
            /\ \A i \in 1..Len(raw[c].w) :
                  raw[c].w[i] \in {"write", "flush", "shutdown"})
    /\ [][wrapper.kind \in {"wrapper", "combine"} =>
            \A c \in RawConns :
               /\ raw'[c].r # raw[c].r =>
                     /\ c = comb.r.conn
                     /\ \A c2 \in RawConns : raw'[c2].w = raw[c2].w
               /\ raw'[c].w # raw[c].w =>
                     /\ c = comb.w.conn
                     /\ \A c2 \in RawConns : raw'[c2].r = raw[c2].r]_vars

\* A stream whose halves belong to two connections has served a read and a
\* write.
C9_Witness ==
    /\ wres.kind = "ok"
    /\ comb.r.conn = "c1" /\ comb.w.conn = "c2"
    /\ raw["c1"].r = <<"read">>
    /\ raw["c2"].w = <<"write", "shutdown">>
    /\ Untouched("c1") = FALSE

-----------------------------------------------------------------------------
(* Properties of the negotiation (NegSpec) *)

\* The keyword of a printed text, and its arguments.
Keyword(text) == Head(SplitChar(text, " "))
Args(text) == Tail(SplitChar(text, " "))
\* The positions on standard output of the texts with a keyword.
LinesOf(o, kw) == {i \in DOMAIN o : Keyword(o[i]) = kw}

\* C11: get_managed_transport_version returns "1" exactly when "1" is an
\* element of the comma-separated list in the version variable; a set
\* variable without that element gives VersionError, an unset one EnvError.
C11_VersionIsListElement ==
    nret.fn = "get_managed_transport_version" =>
        LET e == envval.res
        IN  /\ e.kind = "NotPresent" => nret.res.kind = "EnvError"
            /\ e.kind = "ok" =>
                  LET list == SplitChar(e.val, ",")
                  IN  IF \E i \in DOMAIN list : list[i] = <<"1">>
                      THEN nret.res = Ok(<<"1">>)
                      ELSE nret.res.kind = "VersionError"

Finished == npc \in {"panicked", "exited", "returned"}
IsUnsupported(name) == name # Dummy
MethodErrorLine(name) == CMETHOD_ERROR \o <<" ">> \o name \o <<" ">> \o NoSuchMethod

\* C13: once the requested names are known, the process prints one
\* CMETHOD-ERROR line for every name it does not support, whatever the other
\* names are, and then CMETHODS DONE once, after those lines and after the
\* VERSION line.
C13_EveryUnsupportedMethodReported ==
    Finished /\ info.kind = "ok" =>
        LET bad == SelectSeq(info.val.method_names, IsUnsupported)
        IN  out = <<VERSION \o <<" ", "1">>>>
                  \o [i \in DOMAIN bad |-> MethodErrorLine(bad[i])]
                  \o <<CMETHODS \o <<" ">> \o DONE>>

\* C14: every text printed on standard output has a keyword that satisfies
\* keyword_is_safe and arguments that satisfy arg_is_safe.
C14_PrintedLinesAreSafe ==
    \A i \in DOMAIN out :
        /\ keyword_is_safe(Keyword(out[i]))
        /\ \A j \in DOMAIN Args(out[i]) : arg_is_safe(Args(out[i])[j])

\* client_setup has returned an error.
SetupFailed == info.kind \notin {"none", "ok"}

\* C15: when client_setup returns an error the process has bound no
\* listener, has printed neither CMETHOD-ERROR nor CMETHODS DONE, has read no
\* variable twice, and takes no further step.
C15_SetupErrorStopsStartup ==
    [][/\ ~SetupFailed
       /\ SetupFailed' =>
            /\ listeners' = 0
            /\ idx' = 0
            /\ LinesOf(out', CMETHOD_ERROR) = {}
            /\ LinesOf(out', CMETHODS) = {}
            /\ \A i, j \in DOMAIN reads' : reads'[i] = reads'[j] => i = j]_vars

\* client_setup has failed on the transport-names variable, after the
\* VERSION line.
C15_Witness ==
    /\ SetupFailed
    /\ npc = "panicked"
    /\ nret.fn = "get_client_transports"
    /\ Len(out) = 1

\* The text of a URL has a scheme, the slashes of an authority, a host and
\* a port.
AllPresent(t) == t.scheme # "" /\ t.slashes /\ t.host # "" /\ t.port \notin {"none", ""}

\* C16: get_proxy_url returns None when the proxy variable is unset, the
\* parsed URL when scheme, authority, host and port are all present, and
\* ProxyError for every other value.
C16_ProxyUrlOrProxyError ==
    nret.fn = "get_proxy_url" =>
        LET e == envval.res
        IN  /\ e.kind = "NotPresent" => nret.res = Ok(None)
            /\ e.kind = "ok" =>
                  IF AllPresent(e.val)
                  THEN nret.res.kind = "ok" /\ nret.res.val.kind = "Some"
                  ELSE nret.res.kind = "ProxyError"

\* C17: get_client_transports returns the names between the commas of the
\* variable, in order and unmodified: joined with commas they give the value
\* back, and no name holds a comma; an unset variable gives EnvError.
C17_NamesAreCommaSplit ==
    nret.fn = "get_client_transports" /\ envval.name = TOR_PT_CLIENT_TRANSPORTS =>
        LET e == envval.res
        IN  /\ e.kind = "NotPresent" =>
                  nret.res = Error("EnvError", "NotPresent")
            /\ e.kind = "ok" =>
                  /\ nret.res.kind = "ok"
                  /\ Join(nret.res.val, <<",">>) = e.val
                  /\ \A i \in DOMAIN nret.res.val :
                        \A j \in DOMAIN nret.res.val[i] : nret.res.val[i][j] # ","

\* A backslash before a comma did not escape it, and "*" is a name.
C17_Witness ==
    /\ nret.fn = "get_client_transports"
    /\ envval.res = EnvOk(<<"\\", ",", "*">>)
    /\ nret.res = Ok(<< <<"\\">>, <<"*">> >>)

-----------------------------------------------------------------------------
(* Properties of make_state_dir (DirSpec) *)

\* C18: when the variable is set and no prefix of the path is a file, every
\* make_state_dir call that has returned, whatever the interleaving with the
\* other calls, has returned the path: a directory that exists already, or
\* that another call creates first, is not a failure.
C18_EveryCallReturnsThePath ==
    dvar.kind = "ok" /\ (\A l \in 1..Depth : fs[l] # "file") =>
        \A p \in Procs :
            dpc[p].at = "returned" => dres[p] = Ok(StateLocation)

\* All calls have returned the path, and one of them found the parent
\* missing and then lost the race for a directory to another call.
C18_Witness ==
    /\ \A p \in Procs : dpc[p].at = "returned" /\ dres[p] = Ok(StateLocation)
    /\ \E p \in Procs : dpc[p].seen = {"NotFound", "AlreadyExists"}

-----------------------------------------------------------------------------
(* Properties of the argument map (ArgsSpec) *)

HasChar(s, c) == \E i \in DOMAIN s : s[i] = c
RoundTrips(m) ==
    \/ m = EmptyArgs
    \/ \E k \in DOMAIN m :
          /\ DOMAIN m = {k}
          /\ Len(m[k]) = 1
          /\ k # <<>>
          /\ ~HasChar(k, ";")
          /\ ~HasChar(m[k][1], ";")

PlainPairs == {<<"a">>, <<"b">>} \X {<<"1">>, <<"2">>}
PairsText(ps) == Join([i \in DOMAIN ps |-> ps[i][1] \o <<"=">> \o ps[i][2]], <<";">>)
ValuesOf(ps, k) ==
    LET HasKey(p) == p[1] = k
        sel == SelectSeq(ps, HasKey)
    IN  [i \in DOMAIN sel |-> sel[i][2]]
PairsMap(ps) == [k \in {ps[i][1] : i \in DOMAIN ps} |-> ValuesOf(ps, k)]

\* C20: the values of a repeated key are listed under the key in the order
\* of their occurrences in the input, whatever keys stand in between.
C20_RepeatedKeysKeepOrder ==
    apc = "parsed" =>
        \A ps \in Strings(PlainPairs, MaxParamPieces) :
            ps # <<>> /\ given = PairsText(ps) => parsed = Ok(PairsMap(ps))

\* A key occurs twice with another key in between.
C20_Witness ==
    /\ apc = "parsed"
    /\ given = <<"a", "=", "1", ";", "b", "=", "1", ";", "a", "=", "2">>
    /\ parsed = Ok([k \in {<<"a">>, <<"b">>} |->
                       IF k = <<"a">> THEN << <<"1">>, <<"2">> >> ELSE << <<"1">> >>])

-----------------------------------------------------------------------------
(* Properties of the two grammars (ArgsSpec) *)

\* The character at the index i is escaped: an unescaped backslash stands
\* right before it.
RECURSIVE Escaped(_, _)
Escaped(s, i) == i > 1 /\ s[i - 1] = "\\" /\ ~Escaped(s, i - 1)
\* The text ends with the character c, unescaped.
EndsUnescaped(s, c) == Len(s) > 0 /\ s[Len(s)] = c /\ ~Escaped(s, Len(s))
IsParsed == apc \in {"parsed", "parsed_server"}
Failed(r) == r.kind \notin {"ok"}

\* C21: an input of either grammar that ends with an unescaped semicolon is
\* rejected: the parser returns an error, no map.
C21_TrailingSemicolonRejected ==
    IsParsed /\ EndsUnescaped(given, ";") => parsed.kind = "ParseError"

\* A valid segment followed by a semicolon has been rejected.
C21_Witness ==
    /\ apc = "parsed"
    /\ given = <<"a", "=", "1", ";">>
    /\ parsed = ParseError("no equals sign")

\* The indices of the unescaped occurrences of the character c.
UnescapedAt(s, c) == {i \in DOMAIN s : s[i] = c /\ ~Escaped(s, i)}
\* The segments of a text: <<lo, hi>> where lo and hi are neighbouring
\* unescaped semicolons, or the two ends of the text; the segment is what
\* lies strictly between.
SegmentsOf(s) ==
    LET cuts == {0, Len(s) + 1} \cup UnescapedAt(s, ";")
    IN  {seg \in cuts \X cuts :
            /\ seg[1] < seg[2]
            /\ \A x \in cuts : ~(seg[1] < x /\ x < seg[2])}
Within(seg, set) == {i \in set : seg[1] < i /\ i < seg[2]}
Least(set) == CHOOSE i \in set : \A j \in set : i <= j

\* A segment of client parameters without an unescaped '=' or with nothing
\* before it.
BadClientSegment(s, seg) ==
    LET eqs == Within(seg, UnescapedAt(s, "="))
    IN  eqs = {} \/ Least(eqs) = seg[1] + 1

\* A segment of transport options with an empty name, an empty key, no
\* unescaped ':' before the key or no unescaped '=' after the ':'.
BadServerSegment(s, seg) ==
    LET eqs == Within(seg, UnescapedAt(s, "="))
        colons == Within(seg, UnescapedAt(s, ":"))
        later == {e \in eqs : e > Least(colons)}
    IN  \/ colons = {}
        \/ \E e \in eqs : e < Least(colons)
        \/ Least(colons) = seg[1] + 1
        \/ later = {}
        \/ Least(later) = Least(colons) + 1

\* C22: one bad segment fails the whole parse, wherever it stands: a segment
\* of client parameters with an empty key or without an unescaped '=', a
\* segment of transport options with an empty name, an empty key, without an
\* unescaped ':' before the key or without an unescaped '=' after it.
C22_BadSegmentFailsTheParse ==
    /\ apc = "parsed" /\ given # <<>>
           /\ (\E seg \in SegmentsOf(given) : BadClientSegment(given, seg))
        => parsed.kind = "ParseError"
    /\ apc = "parsed_server" /\ given # <<>>
           /\ (\E seg \in SegmentsOf(given) : BadServerSegment(given, seg))
        => parsed.kind = "ParseError"

\* A segment without a colon after a valid segment has failed the parse.
C22_Witness ==
    /\ apc = "parsed_server"
    /\ given = <<"t", ":", "k", "=", "1", ";", "t">>
    /\ parsed = ParseError("no colon")

\* The characters of s from lo to hi without the unescaped backslashes.
Literal(s, lo, hi) ==
    LET Kept(i) == ~(s[i] = "\\" /\ ~Escaped(s, i))
        at == SelectSeq([j \in 1..(hi - lo + 1) |-> lo + j - 1], Kept)
    IN  [j \in DOMAIN at |-> s[at[j]]]
\* The segments from left to right.
SegmentSeq(s) ==
    LET segs == SegmentsOf(s)
    IN  [j \in 1..Cardinality(segs) |->
            CHOOSE seg \in segs :
                Cardinality({x \in segs : x[1] < seg[1]}) = j - 1]
\* What a good segment says: the key and the value of client parameters,
\* the name, the key and the value of transport options.
ClientPair(s, seg) ==
    LET eq == Least(Within(seg, UnescapedAt(s, "=")))
    IN  <<Literal(s, seg[1] + 1, eq - 1), Literal(s, eq + 1, seg[2] - 1)>>
ServerTriple(s, seg) ==
    LET colon == Least(Within(seg, UnescapedAt(s, ":")))
        eq == Least({e \in Within(seg, UnescapedAt(s, "=")) : e > colon})
    IN  <<Literal(s, seg[1] + 1, colon - 1), Literal(s, colon + 1, eq - 1),
          Literal(s, eq + 1, seg[2] - 1)>>
Holds(values, v) == \E i \in DOMAIN values : values[i] = v
CountOpts(opts) ==
    LET Sum[ts \in SUBSET DOMAIN opts] ==
            IF ts = {} THEN 0
            ELSE LET t == CHOOSE t \in ts : TRUE
                 IN  CountValues(opts[t]) + Sum[ts \ {t}]
    IN  Sum[DOMAIN opts]

\* C23: a backslash escapes the next character and no more: in every
\* accepted input the escaped characters are part of the name, the key or
\* the value they stand in, the segments end at the unescaped semicolons
\* only, and an input whose last character is a backslash that escapes
\* nothing is rejected, whether it ends a name, a key or a value.
C23_BackslashEscapesTheNextCharacter ==
    /\ IsParsed /\ EndsUnescaped(given, "\\") => parsed.kind = "ParseError"
    /\ apc = "parsed" /\ parsed.kind = "ok" /\ given # <<>> =>
           /\ CountValues(parsed.val) = Cardinality(SegmentsOf(given))
           /\ \A seg \in SegmentsOf(given) :
                  LET p == ClientPair(given, seg)
                  IN  p[1] \in DOMAIN parsed.val /\ Holds(parsed.val[p[1]], p[2])
    /\ apc = "parsed_server" /\ parsed.kind = "ok" /\ given # <<>> =>
           /\ CountOpts(parsed.val) = Cardinality(SegmentsOf(given))
           /\ \A seg \in SegmentsOf(given) :
                  LET p == ServerTriple(given, seg)
                  IN  /\ p[1] \in DOMAIN parsed.val
                      /\ p[2] \in DOMAIN parsed.val[p[1]]
                      /\ Holds(parsed.val[p[1]][p[2]], p[3])

\* An escaped colon has become the first character of a transport name.
C23_Witness ==
    /\ apc = "parsed_server"
    /\ given = <<"\\", ":", "t", ":", "k", "=", "1">>
    /\ parsed = Ok([t \in {<<":", "t">>} |-> [k \in {<<"k">>} |-> << <<"1">> >>]])

\* The name, the key and the value of every segment, from left to right,
\* and the options they add up to: one entry per name, holding under every
\* key of the segments of that name their values from left to right.
ServerTriples(s) ==
    LET segs == SegmentSeq(s)
    IN  [j \in DOMAIN segs |-> ServerTriple(s, segs[j])]
OptsOf(triples) ==
    [t \in {triples[j][1] : j \in DOMAIN triples} |->
        LET Named(p) == p[1] = t
            mine == SelectSeq(triples, Named)
        IN  PairsMap([j \in DOMAIN mine |-> <<mine[j][2], mine[j][3]>>])]

\* C24: the options are gathered by transport name: the result has exactly
\* one entry per name seen, and the entry of a name lists under each key the
\* values of all the segments of that name in the order of the input,
\* whatever segments stand in between.
C24_OptionsGatheredByTransport ==
    apc = "parsed_server" /\ parsed.kind = "ok" /\ given # <<>> =>
        parsed.val = OptsOf(ServerTriples(given))

\* Two segments of one transport with a segment of another in between.
C24_Witness ==
    /\ apc = "parsed_server"
    /\ given = <<"t", ":", "k", "=", "1", ";", "u", ":", "k", "=", "2",
                 ";", "t", ":", "k", "=", "3">>
    /\ parsed = Ok([t \in {<<"t">>, <<"u">>} |->
                       [k \in {<<"k">>} |->
                           IF t = <<"t">> THEN << <<"1">>, <<"3">> >>
                           ELSE << <<"2">> >>]])

-----------------------------------------------------------------------------
(* Properties of the argument map and its encoder (ArgsSpec) *)

\* What test_get_args expects of its map.
GetExpected(key) ==
    IF key = <<"b">> THEN Some(<<"v", "a", "l", "u", "e">>)
    ELSE IF key = <<"c">> THEN Some(<<"v", "1">>)
    ELSE None

\* C25: after any sequence of adds the map lists under every key the values
\* added for it, in call order; an add keeps every value that was there, in
\* its place, and changes the list of no other key; retrieve returns the
\* first value added for the key, and None for a key never added and for a
\* key whose list is empty.
C25_AddAppendsRetrieveReturnsFirst ==
    /\ [](apc \in {"new", "retrieved"} => amap = PairsMap(alog))
    /\ [][alog' # alog =>
             LET key == alog'[Len(alog')][1]
             IN  /\ \A k \in DOMAIN amap :
                        /\ k \in DOMAIN amap'
                        /\ IsPrefix(amap[k], amap'[k])
                        /\ k # key => amap'[k] = amap[k]
                 /\ DOMAIN amap' = DOMAIN amap \cup {key}]_vars
    /\ [](apc = "retrieved" =>
             IF aret.args = GetArgs
             THEN aret.res = GetExpected(aret.key)
             ELSE aret.res = IF ValuesOf(alog, aret.key) = <<>> THEN None
                             ELSE Some(ValuesOf(alog, aret.key)[1]))

\* retrieve has returned the first of two values added for one key.
C25_Witness ==
    /\ apc = "retrieved"
    /\ alog = << <<(<<"k">>), (<<"v">>)>>, <<(<<"k">>), (<<"=">>)>> >>
    /\ aret = [args |-> amap, key |-> <<"k">>, res |-> Some(<<"v">>)]

\* What the claim says of one key or value: a backslash before every '=',
\* ',' and backslash.
Escaping(s) ==
    Flatten([i \in DOMAIN s |->
        IF s[i] \in {"=", ",", "\\"} THEN <<"\\", s[i]>> ELSE <<s[i]>>])
\* The stored values of a map as <<key, index>>, keys ascending and the
\* values of one key in list order.
StoredValues(m) ==
    LET slots == UNION {{<<k, j>> : j \in DOMAIN m[k]} : k \in DOMAIN m}
        Before(a, b) == StrLess(a[1], b[1]) \/ (a[1] = b[1] /\ a[2] < b[2])
    IN  [r \in 1..Cardinality(slots) |->
            CHOOSE x \in slots :
                Cardinality({y \in slots : Before(y, x)}) = r - 1]
\* One key=value item per stored value, joined by commas.
ItemsText(m) ==
    LET at == StoredValues(m)
    IN  Join([r \in DOMAIN at |->
                 Escaping(at[r][1]) \o <<"=">> \o Escaping(m[at[r][1]][at[r][2]])],
             <<",">>)

\* C26: the encoder emits one key=value item per stored value, the items
\* joined by commas, keys ascending and the values of one key in list
\* order, '=', ',' and backslash escaped; an absent map and an empty map
\* encode to the empty string.
C26_OneItemPerStoredValue ==
    /\ apc = "encoded" => enc = ItemsText(amap)
    /\ apc = "encoded_other" =>
           enc = IF given = None THEN <<>> ELSE ItemsText(given.val)

-----------------------------------------------------------------------------
(* Properties of the bind addresses (BindSpec) *)

\* The segments of the bind-address list that was read, the method name of
\* a segment (what stands before its first hyphen) and its address text.
BindSegments == SplitChar(benv.bindaddr.val, ",")
NameOf(seg) == SplitChar(seg, "-")[1]
AddrTextOf(seg) == SplitChar(seg, "-")[2]
Returned == bres # NoReturn
DistinctNames(records) ==
    \A i, j \in DOMAIN records :
        i # j => records[i].method_name # records[j].method_name

\* C27: a bind-address list that names one method in two segments fails
\* the call, with equal addresses and with different ones; the method names
\* of a successful result are pairwise distinct.
C27_DuplicateMethodNameFails ==
    /\ Returned /\ benv.bindaddr.kind = "ok"
           /\ (\E i, j \in DOMAIN BindSegments :
                  i # j /\ NameOf(BindSegments[i]) = NameOf(BindSegments[j]))
        => bres.kind # "ok"
    /\ Returned /\ bres.kind = "ok" => DistinctNames(bres.val)

\* One method with two different addresses has been rejected.
C27_Witness ==
    /\ benv = [options |-> EnvOk(<<>>),
               bindaddr |-> EnvOk(<<"t", "-">> \o AddrV4 \o <<",", "t", "-">>
                                     \o AddrV4Other),
               transports |-> EnvOk(<<"u", ",", "t">>)]
    /\ bres = ParseError("duplicate method name")

\* The enabled names, and the record the call owes to a segment.
EnabledNames ==
    LET names == SplitChar(benv.transports.val, ",")
    IN  {names[i] : i \in DOMAIN names}
OptionsFor(name) ==
    LET opts == parse_server_transport_options(benv.options.val).val
    IN  IF name \in DOMAIN opts THEN opts[name] ELSE EmptyArgs
RecordOf(seg) ==
    BindAddr(NameOf(seg), resolve_addr(AddrTextOf(seg)).val, OptionsFor(NameOf(seg)))

\* C28: a successful call returns the records of exactly the segments whose
\* method name is one of the enabled names, in the order of the
\* bind-address list, each with the options of its name or with an empty
\* map; the enabled name "*" selects a method named "*" and no other.
C28_ResultIsTheEnabledRecordsInOrder ==
    Returned /\ bres.kind = "ok" =>
        LET Enabled(seg) == NameOf(seg) \in EnabledNames
            kept == SelectSeq(BindSegments, Enabled)
        IN  /\ bres.val = [i \in DOMAIN kept |-> RecordOf(kept[i])]
            /\ EnabledNames = {<<"*">>} =>
                   \A i \in DOMAIN bres.val : bres.val[i].method_name = <<"*">>

\* Of three methods the two enabled ones have been returned in the order of
\* the bind-address list, one with its options and one with an empty map.
C28_Witness ==
    /\ benv = [options |-> EnvOk(<<"t", ":", "k", "=", "1">>),
               bindaddr |-> EnvOk(<<"t", "-">> \o AddrV4 \o <<",", "u", "-">>
                                     \o AddrV6Bare \o <<",", "*", "-">>
                                     \o AddrV4Other),
               transports |-> EnvOk(<<"u", ",", "t">>)]
    /\ bres = Ok(<<BindAddr(<<"t">>, [ip |-> "1.2.3.4", port |-> 80],
                            [k \in {<<"k">>} |-> << <<"1">> >>]),
                   BindAddr(<<"u">>, [ip |-> "::1", port |-> 80], EmptyArgs)>>)

-----------------------------------------------------------------------------
(* Properties of the text functions (TextSpec) *)

\* A US-ASCII character other than NUL and LF.
IsArgChar(c) == Code[c] \in 1..127 /\ Code[c] # 10

\* C29: arg_is_safe is true exactly for the strings made of US-ASCII
\* characters other than NUL and LF; a character with a code of 0x80 or
\* more makes the string unsafe whatever the low eight bits of the code.
C29_SafeIffAsciiWithoutNulAndLf ==
    sres # NoReturn /\ sres.fn = "arg_is_safe" =>
        (sres.ret <=> \A i \in DOMAIN sarg : IsArgChar(sarg[i]))

\* C30: for a string whose characters have codes 0 to 255, decoding the
\* encoding gives the string back, also when digits follow a character that
\* was written as an escape.
C30_DecodeInvertsEncode ==
    sres.fn = "decode_cstring" /\ (\A i \in DOMAIN sarg : Code[sarg[i]] <= 255)
        => sres.ret = Ok(sarg)

\* The character with code 1, followed by a digit, has come back: its escape
\* has three digits and the digit after it is read as a character.
C30_Witness ==
    /\ sres.fn = "decode_cstring"
    /\ sarg = <<"U+0001", "2">>
    /\ sres.enc = <<Quote, "\\", "0", "0", "1", "2", Quote>>
    /\ sres.ret = Ok(sarg)


-----------------------------------------------------------------------------
(* Properties of the proxy (ProxySpec) *)

\* The connections whose wrap or copy has failed.
FailedConns(tasks) == {c \in ConnIds : tasks[c].end \in {"wrap_error", "copy_error"}}

\* The step leaves the loop and the other tasks alone when it is the step in
\* which the wrap or the copy of connection c fails.
FailureIsLocal(c) ==
    (c \in FailedConns(ptasks') /\ c \notin FailedConns(ptasks)) =>
       (ploop' = ploop /\ \A d \in ConnIds \ {c} : ptasks'[d] = ptasks[d])

FailuresAreLocal == pmode \in Modes => \A c \in ConnIds : FailureIsLocal(c)

\* C31: an error while wrapping or copying one accepted connection ends only
\* that connection's task.  A step in which the wrap or the copy of a
\* connection fails leaves the accept loop as it was (accepting, when it was
\* accepting) and leaves the task of every other connection as it was, and
\* an accept loop that has ended has not ended because of a wrap or a copy.
C31_ConnectionErrorsStayLocal ==
    /\ [](pmode \in Modes => ploop.cause \notin {"wrap_error", "copy_error"})
    /\ [][FailuresAreLocal]_vars

\* The wrap of the first connection failed, the loop went on, and the
\* second connection was accepted and was served to the end of its copy.
C31_Witness ==
    /\ pmode = "Exit"
    /\ ploop = Accepting
    /\ ptasks[1].end = "wrap_error"
    /\ ptasks[2].end = "copy_ok"
    /\ ptasks[2].writes > 0

\* C32: once the token is cancelled, no task issues a further write: the
\* writes a task has issued do not grow in a step taken with the token
\* cancelled.
C32_NoWriteAfterCancellation ==
    pmode \in Modes => \A c \in ConnIds : ptasks[c].late = 0


-----------------------------------------------------------------------------
(* Properties of copy_interactive (InterSpec) *)

\* The operation the step adds to the history, "none" when it adds none.
NewOp == IF ipc # "parked" /\ Len(iops') = Len(iops) + 1 THEN iops'[Len(iops')] ELSE "none"
\* The latest operation of the history.
LastOp == IF Len(iops) = 0 THEN "none" ELSE iops[Len(iops)]

\* The writes that no successful flush has followed.
Unflushed(ops) ==
    {i \in 1..Len(ops) : ops[i] = "write_ok" /\ \A j \in (i + 1)..Len(ops) : ops[j] # "flush_ok"}

\* A flush of the copy loop directly follows a poll of the read that was
\* Pending (the flush after the loop is the subject of C40).
FlushFollowsPending ==
    (NewOp \in FlushOps /\ ipc # "finish") => LastOp = "read_pending"
\* No operation on the writer stands between a poll that found data and the
\* write of that data.
ReadyDataIsWrittenNext ==
    (ipc # "parked" /\ LastOp = "read_data") => NewOp \in WriteOps \cup {"none"}

Closes(ops) == {i \in 1..Len(ops) : ops[i] \in CloseOps}

\* C40: the writer is closed only directly after the reader reported a clean
\* end-of-stream, at most once in a run and exactly once when the function
\* returns after a clean end-of-stream; a read error is followed by one
\* flush and nothing else, and a write error by nothing at all.
C40_CloseOnlyAfterCleanEof ==
    ipc # "parked" =>
       /\ \A i \in Closes(iops) : i > 1 /\ iops[i - 1] \in {"read_eof", "await_eof"} /\ i = Len(iops)
       /\ Cardinality(Closes(iops)) <= 1
       /\ (ipc = "returned" /\ iloop.kind = "ok") => Cardinality(Closes(iops)) = 1
       /\ \A i \in 1..Len(iops) :
             /\ iops[i] \in {"read_err", "await_err"} =>
                   /\ i + 1 <= Len(iops) => (iops[i + 1] \in FlushOps /\ i + 1 = Len(iops))
                   /\ ipc = "returned" => i + 1 = Len(iops)
             /\ iops[i] = "write_err" => (i = Len(iops) /\ ipc = "returned")

\* The function has returned after data, a clean end-of-stream and a close.
C40_Witness ==
    /\ ipc = "returned"
    /\ \E i \in 1..Len(iops) : iops[i] = "write_ok"
    /\ Closes(iops) # {}


-----------------------------------------------------------------------------
(* Properties of the scheduling turn and of the shutdown (Spec) *)

\* The step in which transfer_one_direction of a_to_b returns Pending to the
\* closure goes on to the call for b_to_a.
PendingGoesOn ==
    (pc = "a_to_b" /\ ret'["a_to_b"].kind = "pending" /\ ret["a_to_b"].kind = "none")
        => pc' = "b_to_a"
\* A turn begins with a_to_b.
TurnBeginsWithAToB == (pc = "idle" /\ pc' # pc) => pc' = "a_to_b"
\* A turn ends, as Pending or with the pair, only from the end of the closure.
TurnEndsAfterBoth == (pc # "parked" /\ pc' = "idle" /\ pc' # pc) => pc = "ready"

\* C34: a_to_b is polled first in every turn, and in a turn in which a_to_b
\* returns Pending b_to_a is polled as well: at the end of the closure both
\* directions have returned a Poll value.
C34_BothDirectionsPolledInEveryTurn ==
    /\ [](pc = "ready" => \A d \in Dirs : ret[d].kind # "none")
    /\ [](pc = "b_to_a" => ret["a_to_b"].kind \in {"pending", "ready"})
    /\ [][PendingGoesOn]_vars
    /\ [][TurnBeginsWithAToB]_vars
    /\ [][TurnEndsAfterBoth]_vars

\* In one turn a_to_b was pending while b_to_a delivered a byte to a.
C34_Witness ==
    /\ pc = "ready"
    /\ ret["a_to_b"].kind = "pending"
    /\ rlog["a"] = <<>>
    /\ wlog["a"] # <<>>

\* C35: a direction is in ShuttingDown (or past it) only when every byte
\* read from its source has been written to its destination and its buffer
\* holds no byte, and a shutdown has been invoked on a destination only then.
C35_ShutdownAfterAllBytesWritten ==
    pc # "parked" =>
       \A d \in Dirs :
          (state[d].tag # "Running" \/ shut[Writer(d)] # "open") =>
             /\ wlog[Writer(d)] = rlog[Reader(d)]
             /\ cbuf[d].pos = cbuf[d].cap
             /\ eof[Reader(d)]

\* A direction that has moved bytes is in ShuttingDown.
C35_Witness ==
    /\ state["a_to_b"].tag = "ShuttingDown"
    /\ Len(rlog["a"]) = MaxData
    /\ wlog["b"] = rlog["a"]


-----------------------------------------------------------------------------
(* Properties of the parsed maps (ArgsSpec) *)

\* Every key of the argument map has at least one value.
NoEmptyKey(args) == \A k \in DOMAIN args : Len(args[k]) >= 1

\* C36: every key of a map returned by parse_client_parameters has at least
\* one value, and in a map returned by parse_server_transport_options every
\* transport name has at least one key and every key at least one value.
C36_ParsedMapsHaveNoEmptyEntry ==
    /\ (apc \in {"parsed", "decoded"} /\ parsed.kind = "ok") => NoEmptyKey(parsed.val)
    /\ (apc = "parsed_server" /\ parsed.kind = "ok") =>
          \A t \in DOMAIN parsed.val :
             DOMAIN parsed.val[t] # {} /\ NoEmptyKey(parsed.val[t])

\* parse_server_transport_options has returned two transports, one of them
\* with two keys.
C36_Witness ==
    /\ apc = "parsed_server"
    /\ parsed.kind = "ok"
    /\ Cardinality(DOMAIN parsed.val) = 2
    /\ \E t \in DOMAIN parsed.val : Cardinality(DOMAIN parsed.val[t]) = 2


\* The runs that end with the result of a parser.
ParserReturned ==
    apc \in {"parsed", "parsed_server", "decoded", "parsed_wide_client", "parsed_wide_server"}

\* C37: for every input, also one with multi-byte characters, each parser
\* returns a map or a ParseError and never panics.
C37_ParsersNeverPanic ==
    ParserReturned => parsed.kind \in {"ok", "ParseError"}

\* On inputs of one-byte characters the parsers return a map or a ParseError.
AsciiInputsNeverPanic ==
    apc \in {"parsed", "parsed_server", "decoded"} => parsed.kind \in {"ok", "ParseError"}


-----------------------------------------------------------------------------
(* Properties of the validation of the bind addresses (BindSpec) *)

\* The address texts that resolve.
Resolvable == {AddrV4, AddrV4Other, AddrV6Bare}

\* The segment i of the list is not valid: it has not exactly one hyphen,
\* its address does not resolve, or its method name is the name of another
\* segment.
BadBindSegment(i) ==
    LET parts == SplitChar(BindSegments[i], "-")
    IN  \/ Len(parts) # 2
        \/ parts[2] \notin Resolvable
        \/ \E j \in DOMAIN BindSegments : j # i /\ NameOf(BindSegments[j]) = parts[1]

\* The errors of the call: a kind and a message, no record.
BindErrors ==
    {EnvError(EnvNotPresent), AddrParseError("invalid socket address syntax")}
        \cup {ParseError(m) : m \in {"doesn't contain \"-\"", "duplicate method name",
                                     "no colon", "no equals sign", "empty method name",
                                     "empty key", "nothing following final escape"}}

\* C38: a segment that is not valid fails the whole call, whether its
\* method is enabled or not, and a call that fails, also for an unset
\* variable, returns an error and no record.
C38_EverySegmentIsValidatedBeforeTheFilter ==
    Returned =>
       /\ (benv.bindaddr.kind = "ok" /\ \E i \in DOMAIN BindSegments : BadBindSegment(i))
             => bres.kind # "ok"
       /\ (\E v \in {benv.options, benv.bindaddr, benv.transports} : v.kind # "ok")
             => bres.kind # "ok"
       /\ bres.kind # "ok" => bres \in BindErrors

\* The address of a method that is not enabled does not resolve, and the
\* call has failed although the enabled method is valid.
C38_Witness ==
    /\ benv = [options |-> EnvOk(<<>>),
               bindaddr |-> EnvOk(<<"t", "-">> \o AddrV4 \o <<",", "u", "-">>
                                     \o AddrNoPort),
               transports |-> EnvOk(<<"t", ",", "*">>)]
    /\ bres = AddrParseError("invalid socket address syntax")

====
